---- MODULE Spec2Model ----
(***************************************************************************)
(* Model of the IELTS essay evaluation backend: the gap-analysis helper    *)
(* functions (agent_files/helper_functions.py), the gap analysis node      *)
(* (agent_files/gap_analysis_agent.py), the central fan-out / fan-in      *)
(* workflow with its retry wrappers and its optional meta-evaluation node  *)
(* (agent_files/central_agent.py), the image description step              *)
(* (agent_files/image_description_agent.py) and the word count penalty     *)
(* (app/tools/key_assessment_criteria_tool.py).                            *)
(*                                                                         *)
(* Band values that may be fractional (the overall band) are held in       *)
(* quarter-band fixed point: the integer Q * band.  The average of four    *)
(* integer scores is always a whole number of quarter bands, so the        *)
(* representation is exact.                                                *)
(*                                                                         *)
(* A Python dict is a TLA+ function whose DOMAIN is the dict's key set; a  *)
(* key that was never written is not in the DOMAIN.                        *)
(***************************************************************************)
EXTENDS Integers, Sequences, FiniteSets, TLC

VARIABLES
    h_args,          \* pure-function harness: the call being made
    h_ret,           \* pure-function harness: its outcome
    state,           \* CentralAgentState: the workflow's channels (dict)
    wf_step,         \* position of the central workflow
    branch,          \* per scoring branch: retry wrapper state and output
    gpc,             \* gap_analysis: program counter
    gap_attempts,    \* gap_retriable: attempts made so far
    overall_band,    \* gap_analysis local (quarter-band units)
    weak_bands,      \* gap_analysis local
    weak_comments,   \* gap_analysis local
    descriptor_data, \* gap_analysis local
    criteria_data,   \* gap_analysis local
    prompt,          \* gap_analysis local (unbound until the loop body runs)
    todo,            \* gap_analysis: criteria the for-loop has still to visit
    calls,           \* external calls made by the current gap_analysis run
    gap_result,      \* what the current gap_analysis run returned
    environ,         \* os.environ: the value of EVAL_MONITORING
    meta             \* meta_retriable: the meta-evaluation node's retry wrapper

hvars == <<h_args, h_ret>>
wvars == <<state, wf_step, branch, gap_attempts>>
gvars == <<gpc, overall_band, weak_bands, weak_comments, descriptor_data,
           criteria_data, prompt, todo, calls, gap_result>>
evars == <<environ, meta>>
vars == <<h_args, h_ret, state, wf_step, branch, gpc, gap_attempts,
          overall_band, weak_bands, weak_comments, descriptor_data,
          criteria_data, prompt, todo, calls, gap_result, environ, meta>>

----------------------------------------------------------------------------
(* Bounds of the model and constants of the program.                       *)

MinScore == 0       \* lowest valid band score
MaxScore == 9       \* highest valid band score
RequiredScores == 4 \* number of band scores calculate_overall_band accepts
Q == RequiredScores \* fixed-point scale: the mean of four integers is in quarter bands
MinTarget == 1      \* InputState.target_band ge
MaxTarget == 9      \* InputState.target_band le
StopAfterAttempt == 5 \* with_retry(stop_after_attempt=5)

Slack == 1          \* how far outside 0..9 the harness scores reach
MaxLen == 5         \* longest score list handed to calculate_overall_band
WfSpan == 1         \* the scoring agents of the workflow answer MaxScore-WfSpan..MaxScore
ScoreSpan == 6      \* gap analysis is run on the scores MaxScore-ScoreSpan..MaxScore
MaxReruns == 1      \* how often the image description step is run on its own output
MaxWords == 255     \* longest text piece of an essay, in words
MaxTail == 2        \* longest second text piece of an essay, in words

ValidScores == MinScore..MaxScore
WfScores == {x \in ValidScores : x >= MaxScore - WfSpan}
GapScores == {x \in ValidScores : x >= MaxScore - ScoreSpan}
HarnessScores == (MinScore - Slack)..(MaxScore + Slack)
\* scores used in the lists of the wrong length
ProbeScores == {MinScore - Slack, MinScore, MaxScore, MaxScore + Slack}

EmptyDict == [k \in {} |-> 0]

\* Python's None, as the value of a field
None == "None"

\* Python's None, where values of several types are told apart by type
NoneValue == [type |-> "NoneType"]

\* a node the graph has not scheduled
Unscheduled == [attempts |-> 0, status |-> "unscheduled"]

----------------------------------------------------------------------------
(* agent_files/helper_functions.py                                         *)

RECURSIVE sum(_)
sum(s) == IF s = <<>> THEN 0 ELSE Head(s) + sum(Tail(s))

Returned(v) == [outcome |-> "returned", value |-> v]
Raised(e) == [outcome |-> "raised", error |-> e]

CountError == "4 band scores required to calculate overall score"
RangeError == "Individual band scores must be an integer between 0 and 9"

\* calculate_overall_band rounding to the nearest half band instead of down
calculate_overall_band_nearest(band_scores) ==
    IF Len(band_scores) # RequiredScores THEN Raised(CountError)
    ELSE IF \E i \in 1..Len(band_scores) :
                band_scores[i] < MinScore \/ band_scores[i] > MaxScore
         THEN Raised(RangeError)
    ELSE LET average == (Q * sum(band_scores)) \div Len(band_scores)
             rounded == (average * 2 + Q \div 2) \div Q
         IN  Returned(rounded * (Q \div 2))

\* calculate_overall_band returning the plain average, not floored
calculate_overall_band_average(band_scores) ==
    IF Len(band_scores) # RequiredScores THEN Raised(CountError)
    ELSE IF \E i \in 1..Len(band_scores) :
                band_scores[i] < MinScore \/ band_scores[i] > MaxScore
         THEN Raised(RangeError)
    ELSE Returned((Q * sum(band_scores)) \div Len(band_scores))

\* calculate_overall_band making the range check first and forgetting the
\* lower limit
calculate_overall_band_checks(band_scores) ==
    IF \E i \in 1..Len(band_scores) : band_scores[i] > MaxScore
    THEN Raised(RangeError)
    ELSE IF Len(band_scores) # RequiredScores THEN Raised(CountError)
    ELSE LET average == (Q * sum(band_scores)) \div Len(band_scores)
             floored == (average * 2) \div Q
         IN  Returned(floored * (Q \div 2))

\* floor(average * 2) / 2, in quarter bands.  average = sum / len is
\* (Q * sum) / len quarter bands; it is only computed when len = 4.
calculate_overall_band(band_scores) ==
    IF Len(band_scores) # RequiredScores THEN Raised(CountError)
    ELSE IF \E i \in 1..Len(band_scores) :
                band_scores[i] < MinScore \/ band_scores[i] > MaxScore
         THEN Raised(RangeError)
    ELSE LET average == (Q * sum(band_scores)) \div Len(band_scores)
             floored == (average * 2) \div Q      \* math.floor(average * 2)
         IN  Returned(floored * (Q \div 2))       \* ... / 2

\* has_hit_target with a tie not counting as met
has_hit_target_strict(actual, target) == actual > Q * target

\* actual is in quarter bands, target is a whole band
has_hit_target(actual, target) == actual >= Q * target

\* get_weak_bands comparing with <= instead of <
get_weak_bands_inclusive(band_scores, target) ==
    [k \in {c \in DOMAIN band_scores : band_scores[c] <= target}
        |-> band_scores[k]]

get_weak_bands(band_scores, target) ==
    [k \in {c \in DOMAIN band_scores : band_scores[c] < target}
        |-> band_scores[k]]

----------------------------------------------------------------------------
(* Harness for the pure helper functions: Init draws the arguments, the    *)
(* action makes the call.                                                  *)

Criteria == {"Grammatical Range & Accuracy", "Coherence & Cohesion",
             "Lexical Resource", "Task Response"}

Pending == [outcome |-> "pending"]

\* the workflow is not running while a helper is exercised on its own
WorkflowIdle ==
    /\ state = EmptyDict
    /\ wf_step = "idle"
    /\ branch = EmptyDict
    /\ gap_attempts = 0
    /\ environ = None
    /\ meta = Unscheduled

GapIdle ==
    /\ gpc = "idle"
    /\ overall_band = 0
    /\ weak_bands = EmptyDict
    /\ weak_comments = EmptyDict
    /\ descriptor_data = EmptyDict
    /\ criteria_data = EmptyDict
    /\ prompt = [bound |-> FALSE]
    /\ todo = <<>>
    /\ calls = [descriptor |-> 0, criteria |-> 0, llm |-> 0]
    /\ gap_result = [outcome |-> "pending"]

HarnessIdle ==
    /\ h_args = [fn |-> "none"]
    /\ h_ret = Pending

BandScoreLists ==
    [1..RequiredScores -> HarnessScores]
        \cup UNION {[1..n -> ProbeScores] : n \in 0..MaxLen}

InitBand ==
    /\ h_args \in {[fn |-> "calculate_overall_band", band_scores |-> s] :
                      s \in BandScoreLists}
    /\ h_ret = Pending
    /\ WorkflowIdle
    /\ GapIdle

CallCalculateOverallBand ==
    /\ h_args.fn = "calculate_overall_band"
    /\ h_ret = Pending
    /\ h_ret' = calculate_overall_band(h_args.band_scores)
    /\ UNCHANGED <<h_args, wvars, gvars, evars>>

NextBand == CallCalculateOverallBand

SpecBand == InitBand /\ [][NextBand]_vars

WeakBandDicts ==
    UNION {[keys -> ValidScores] : keys \in SUBSET Criteria}

InitWeak ==
    /\ h_args \in {[fn |-> "get_weak_bands", band_scores |-> d, target |-> t] :
                      d \in WeakBandDicts,
                      t \in (MinTarget - Slack)..(MaxTarget + Slack)}
    /\ h_ret = Pending
    /\ WorkflowIdle
    /\ GapIdle

CallGetWeakBands ==
    /\ h_args.fn = "get_weak_bands"
    /\ h_ret = Pending
    /\ h_ret' = Returned(get_weak_bands(h_args.band_scores, h_args.target))
    /\ UNCHANGED <<h_args, wvars, gvars, evars>>

NextWeak == CallGetWeakBands

SpecWeak == InitWeak /\ [][NextWeak]_vars

----------------------------------------------------------------------------
(* Descriptor Store lookups used by gap analysis                           *)
(* (helper_functions.py, app/tools/band_descriptor_tool.py,                *)
(* app/tools/key_assessment_criteria_tool.py).                             *)

EssayTypes == 1..4

\* str.lower() (after strip()) on the names this model passes around
Lower(name) ==
    CASE name = "Grammatical Range & Accuracy" -> "grammatical range & accuracy"
      [] name = "Coherence & Cohesion" -> "coherence & cohesion"
      [] name = "Lexical Resource" -> "lexical resource"
      [] name = "Task Response" -> "task response"
      [] name = "Task Achievement" -> "task achievement"
      [] name \in {"TRUE", "True"} -> "true"
      [] name \in {"YES", "Yes"} -> "yes"
      [] name = "Y" -> "y"
      [] name = "FALSE" -> "false"
      [] name \in {"GRAMMAR_AGENT", "Grammar_Agent"} -> "grammar_agent"
      [] name = "LEXICAL_agent" -> "lexical_agent"
      [] name = "Coherence_Agent" -> "coherence_agent"
      [] name \in {"task_AGEnt", "TASK_AGENT"} -> "task_agent"
      [] name = "TASK" -> "task"
      [] OTHER -> name

map_essay_type(essay_type) ==
    IF essay_type \in {1, 2}
    THEN Returned([exam_type |-> "General Training",
                   task_type_str |-> IF essay_type \in {1, 3} THEN "Task 1" ELSE "Task 2",
                   task_type_int |-> IF essay_type \in {1, 3} THEN 1 ELSE 2])
    ELSE IF essay_type \in {3, 4}
    THEN Returned([exam_type |-> "Academic",
                   task_type_str |-> IF essay_type \in {1, 3} THEN "Task 1" ELSE "Task 2",
                   task_type_int |-> IF essay_type \in {1, 3} THEN 1 ELSE 2])
    ELSE Raised("Invalid essay_type, must be 1-4")

\* map_agent_to_criteria comparing the name as it was given
map_agent_to_criteria_exact(agent_name, task_number) ==
    LET agent_name_lower == agent_name IN
    IF agent_name_lower = "task_agent"
    THEN IF task_number = 1 THEN Returned("Task Achievement")
         ELSE IF task_number = 2 THEN Returned("Task Response")
         ELSE Raised("task_number must be Task 1 or Task 2")
    ELSE IF agent_name_lower = "grammar_agent"
         THEN Returned("Grammatical Range & Accuracy")
    ELSE IF agent_name_lower = "lexical_agent" THEN Returned("Lexical Resource")
    ELSE IF agent_name_lower = "coherence_agent"
         THEN Returned("Coherence & Cohesion")
    ELSE Raised("Unknown agent name")

map_agent_to_criteria(agent_name, task_number) ==
    LET agent_name_lower == Lower(agent_name) IN
    IF agent_name_lower = "task_agent"
    THEN IF task_number = 1 THEN Returned("Task Achievement")
         ELSE IF task_number = 2 THEN Returned("Task Response")
         ELSE Raised("task_number must be Task 1 or Task 2")
    ELSE IF agent_name_lower = "grammar_agent"
         THEN Returned("Grammatical Range & Accuracy")
    ELSE IF agent_name_lower = "lexical_agent" THEN Returned("Lexical Resource")
    ELSE IF agent_name_lower = "coherence_agent"
         THEN Returned("Coherence & Cohesion")
    ELSE Raised("Unknown agent name")

map_criteria_to_agent(criterion) ==
    LET criterion_normalised == Lower(criterion) IN
    CASE criterion_normalised = "grammatical range & accuracy" -> Returned("grammar_agent")
      [] criterion_normalised = "lexical resource" -> Returned("lexical_agent")
      [] criterion_normalised = "coherence & cohesion" -> Returned("coherence_agent")
      [] criterion_normalised = "task achievement" -> Returned("task_agent")
      [] criterion_normalised = "task response" -> Returned("task_agent")
      [] OTHER -> Raised("Unknown criterion")

map_criteria_to_comment(criterion) ==
    LET criterion_normalised == Lower(criterion) IN
    CASE criterion_normalised = "grammatical range & accuracy" -> Returned("grammar_comment")
      [] criterion_normalised = "lexical resource" -> Returned("lexical_comment")
      [] criterion_normalised = "coherence & cohesion" -> Returned("coherence_comment")
      [] criterion_normalised = "task achievement" -> Returned("task_comment")
      [] criterion_normalised = "task response" -> Returned("task_comment")
      [] OTHER -> Raised("Unknown criterion")

\* The rubric JSON files: every criterion of every exam type and task holds
\* the bands DescriptorBands.
DescriptorBands == 0..9

HasDescriptor(exam_type, task_type_name, criteria, band) ==
    band \in DescriptorBands

\* BandDescriptorTool.get_target_band_descriptors_by_criteria: the text is
\* identified by what it was looked up with
get_target_band_descriptors_by_criteria(essay_type, agent, band) ==
    LET m == map_essay_type(essay_type) IN
    IF m.outcome = "raised" THEN m
    ELSE LET criteria == map_agent_to_criteria(agent, m.value.task_type_int) IN
         IF criteria.outcome = "raised" THEN criteria
         ELSE IF HasDescriptor(m.value.exam_type, m.value.task_type_str,
                               criteria.value, band)
              THEN Returned(<<"band descriptor", m.value.exam_type,
                              m.value.task_type_str, criteria.value, band>>)
              ELSE Returned(<<"Descriptor not found for given parameters.">>)

\* KeyAssessmentCriteriaTool.get_assessment_by_criteria
get_assessment_by_criteria(essay_type, agent) ==
    LET m == map_essay_type(essay_type) IN
    IF m.outcome = "raised" THEN m
    ELSE LET criteria == map_agent_to_criteria(agent, m.value.task_type_int) IN
         IF criteria.outcome = "raised" THEN criteria
         ELSE Returned(<<"assessment criteria", m.value.exam_type,
                         m.value.task_type_str, criteria.value>>)

\* BandDescriptorTool.get_all_band_descriptors_by_criteria
get_all_band_descriptors_by_criteria(essay_type, agent) ==
    LET m == map_essay_type(essay_type) IN
    IF m.outcome = "raised" THEN m
    ELSE LET criteria == map_agent_to_criteria(agent, m.value.task_type_int) IN
         IF criteria.outcome = "raised" THEN criteria
         ELSE Returned(<<"band descriptors", m.value.exam_type,
                         m.value.task_type_str, criteria.value>>)

\* KeyAssessmentCriteriaTool.get_task_description
get_task_description(essay_type) ==
    LET m == map_essay_type(essay_type) IN
    IF m.outcome = "raised" THEN m
    ELSE Returned(<<"task description", m.value.exam_type,
                    m.value.task_type_str>>)

----------------------------------------------------------------------------
(* agent_files/gap_analysis_agent.py: gap_analysis, one run of it.         *)

CriteriaOrder == <<"Grammatical Range & Accuracy", "Coherence & Cohesion",
                   "Lexical Resource", "Task Response">>

\* band_scores = {criterion: input.<agent>_score}
ScoreField(criterion) ==
    CASE criterion = "Grammatical Range & Accuracy" -> "grammar_score"
      [] criterion = "Coherence & Cohesion" -> "coherence_score"
      [] criterion = "Lexical Resource" -> "lexical_score"
      [] criterion = "Task Response" -> "task_score"

ScoreFields == {"grammar_score", "coherence_score", "lexical_score", "task_score"}
CommentFields == {"grammar_comment", "coherence_comment", "lexical_comment",
                  "task_comment"}

WellDone == "Well Done. The essay meets or exceeds your target band selected. Maintain current writing quality."
DefaultFeedback == "Overall Feedback Not Generated"

\* getattr(input, name, default): a field of the state that was never
\* written holds None
getattr(input, name) == IF name \in DOMAIN input THEN input[name] ELSE None

NoCalls == [descriptor |-> 0, criteria |-> 0, llm |-> 0]
Unbound == [bound |-> FALSE]

\* IELTS_GAP_ANALYSIS_PROMPT.format(...): the request, by its contents
format_prompt(ob, target, wb, wc, dd, cd) ==
    [bound |-> TRUE, overall_band |-> ob, target_band |-> target,
     weak_bands |-> wb, weak_comments |-> wc,
     target_band_descriptor_data |-> dd, criteria_data |-> cd]

\* lines 60-79: the scores, the overall band, the early return, the weak
\* bands and their comments
GapStart ==
    /\ gpc = "start"
    /\ calls' = NoCalls
    /\ prompt' = Unbound
    /\ descriptor_data' = EmptyDict
    /\ criteria_data' = EmptyDict
    /\ IF ~(ScoreFields \subseteq DOMAIN state)
       THEN \* a None score: the comparison in calculate_overall_band raises
            /\ gpc' = "raised"
            /\ gap_result' = Raised("TypeError")
            /\ UNCHANGED <<overall_band, weak_bands, weak_comments, todo>>
       ELSE LET band_scores == [c \in Criteria |-> state[ScoreField(c)]]
                values == [i \in 1..Len(CriteriaOrder) |-> band_scores[CriteriaOrder[i]]]
                r == calculate_overall_band(values)
            IN  IF r.outcome = "raised"
                THEN /\ gpc' = "raised"
                     /\ gap_result' = r
                     /\ UNCHANGED <<overall_band, weak_bands, weak_comments, todo>>
                ELSE IF has_hit_target(r.value, state.target_band)
                THEN /\ gpc' = "returned"
                     /\ overall_band' = r.value
                     /\ gap_result' = Returned([overall_feedback |-> WellDone])
                     /\ UNCHANGED <<weak_bands, weak_comments, todo>>
                ELSE LET wb == get_weak_bands(band_scores, state.target_band) IN
                     /\ gpc' = "loop"
                     /\ overall_band' = r.value
                     /\ weak_bands' = wb
                     /\ weak_comments' =
                           [c \in DOMAIN wb |->
                               getattr(state, map_criteria_to_comment(c).value)]
                     /\ todo' = SelectSeq(CriteriaOrder, LAMBDA c : c \in DOMAIN wb)
                     /\ gap_result' = Pending
    /\ UNCHANGED <<hvars, wvars, evars>>

\* GapLoop building the request from the current criterion's lookups alone
GapLoop_last_only ==
    /\ gpc = "loop"
    /\ todo # <<>>
    /\ LET criterion == Head(todo)
           agent == map_criteria_to_agent(criterion).value
           descriptor_output ==
               get_target_band_descriptors_by_criteria(state.essay_type, agent,
                                                       state.target_band)
           criteria_output == get_assessment_by_criteria(state.essay_type, agent)
       IN  IF descriptor_output.outcome = "raised"
           THEN /\ gpc' = "raised"
                /\ gap_result' = descriptor_output
                /\ calls' = [calls EXCEPT !.descriptor = @ + 1]
                /\ UNCHANGED <<descriptor_data, criteria_data, prompt, todo>>
           ELSE IF criteria_output.outcome = "raised"
           THEN /\ gpc' = "raised"
                /\ gap_result' = criteria_output
                /\ calls' = [calls EXCEPT !.descriptor = @ + 1, !.criteria = @ + 1]
                /\ UNCHANGED <<descriptor_data, criteria_data, prompt, todo>>
           ELSE LET dd == (criterion :> [description |-> descriptor_output.value])
                              @@ descriptor_data
                    cd == (criterion :> [description |-> criteria_output.value])
                              @@ criteria_data
                IN  /\ descriptor_data' = dd
                    /\ criteria_data' = cd
                    /\ prompt' = format_prompt(overall_band, state.target_band,
                          weak_bands, weak_comments,
                          (criterion :> [description |-> descriptor_output.value]),
                          (criterion :> [description |-> criteria_output.value]))
                    /\ calls' = [calls EXCEPT !.descriptor = @ + 1, !.criteria = @ + 1]
                    /\ todo' = Tail(todo)
                    /\ UNCHANGED <<gpc, gap_result>>
    /\ UNCHANGED <<overall_band, weak_bands, weak_comments>>
    /\ UNCHANGED <<hvars, wvars, evars>>

\* lines 84-111: one iteration of the loop over the weak criteria: the two
\* lookups, the two snapshots, the prompt rebuilt from all that is
\* accumulated so far
GapLoop ==
    /\ gpc = "loop"
    /\ todo # <<>>
    /\ LET criterion == Head(todo)
           agent == map_criteria_to_agent(criterion).value
           descriptor_output ==
               get_target_band_descriptors_by_criteria(state.essay_type, agent,
                                                       state.target_band)
           criteria_output == get_assessment_by_criteria(state.essay_type, agent)
       IN  IF descriptor_output.outcome = "raised"
           THEN /\ gpc' = "raised"
                /\ gap_result' = descriptor_output
                /\ calls' = [calls EXCEPT !.descriptor = @ + 1]
                /\ UNCHANGED <<descriptor_data, criteria_data, prompt, todo>>
           ELSE IF criteria_output.outcome = "raised"
           THEN /\ gpc' = "raised"
                /\ gap_result' = criteria_output
                /\ calls' = [calls EXCEPT !.descriptor = @ + 1, !.criteria = @ + 1]
                /\ UNCHANGED <<descriptor_data, criteria_data, prompt, todo>>
           ELSE LET dd == (criterion :> [description |-> descriptor_output.value])
                              @@ descriptor_data
                    cd == (criterion :> [description |-> criteria_output.value])
                              @@ criteria_data
                IN  /\ descriptor_data' = dd
                    /\ criteria_data' = cd
                    /\ prompt' = format_prompt(overall_band, state.target_band,
                                               weak_bands, weak_comments, dd, cd)
                    /\ calls' = [calls EXCEPT !.descriptor = @ + 1, !.criteria = @ + 1]
                    /\ todo' = Tail(todo)
                    /\ UNCHANGED <<gpc, gap_result>>
    /\ UNCHANGED <<overall_band, weak_bands, weak_comments>>
    /\ UNCHANGED <<hvars, wvars, evars>>

\* lines 113-122: the generation call returns and gap_analysis returns its
\* result; the plan is identified by the request that produced it
GapGenerate ==
    /\ gpc = "loop"
    /\ todo = <<>>
    /\ IF ~prompt.bound
       THEN \* the loop body never ran: prompt is an unbound local
            /\ gpc' = "raised"
            /\ gap_result' = Raised("UnboundLocalError")
            /\ UNCHANGED calls
       ELSE /\ gpc' = "returned"
            /\ calls' = [calls EXCEPT !.llm = @ + 1]
            /\ gap_result' = Returned(
                  [overall_band |-> overall_band,
                   met_target |-> FALSE,
                   weak_bands |-> weak_bands,
                   descriptors_used |-> descriptor_data,
                   assessment_criteria_used |-> criteria_data,
                   overall_feedback |-> [plan_for |-> prompt]])
    /\ UNCHANGED <<overall_band, weak_bands, weak_comments, descriptor_data,
                   criteria_data, prompt, todo>>
    /\ UNCHANGED <<hvars, wvars, evars>>

\* line 113: the generation call raises
GapGenerateFails ==
    /\ gpc = "loop"
    /\ todo = <<>>
    /\ prompt.bound
    /\ gpc' = "raised"
    /\ calls' = [calls EXCEPT !.llm = @ + 1]
    /\ gap_result' = Raised("llm.invoke failed")
    /\ UNCHANGED <<overall_band, weak_bands, weak_comments, descriptor_data,
                   criteria_data, prompt, todo>>
    /\ UNCHANGED <<hvars, wvars, evars>>

\* what the scoring agents leave in the state
CommentOf(field) == <<"comment", field>>

\* CentralAgentState after the aggregator: the submission and all four
\* scores and comments
AggregatedStates ==
    {[track_id |-> "track", essay_type |-> et, target_band |-> tb,
      grammar_score |-> g, coherence_score |-> c,
      lexical_score |-> l, task_score |-> t,
      grammar_comment |-> CommentOf("grammar_comment"),
      coherence_comment |-> CommentOf("coherence_comment"),
      lexical_comment |-> CommentOf("lexical_comment"),
      task_comment |-> CommentOf("task_comment"),
      overall_feedback |-> DefaultFeedback] :
        et \in EssayTypes, tb \in MinTarget..MaxTarget,
        g \in GapScores, c \in GapScores, l \in GapScores, t \in GapScores}

InitGap ==
    /\ HarnessIdle
    /\ state \in AggregatedStates
    /\ wf_step = "idle"
    /\ branch = EmptyDict
    /\ gap_attempts = 0
    /\ environ = None
    /\ meta = Unscheduled
    /\ gpc = "start"
    /\ overall_band = 0
    /\ weak_bands = EmptyDict
    /\ weak_comments = EmptyDict
    /\ descriptor_data = EmptyDict
    /\ criteria_data = EmptyDict
    /\ prompt = Unbound
    /\ todo = <<>>
    /\ calls = NoCalls
    /\ gap_result = Pending

NextGap ==
    \/ GapStart
    \/ GapLoop
    \/ GapGenerate
    \/ GapGenerateFails

SpecGap == InitGap /\ [][NextGap]_vars

----------------------------------------------------------------------------
(* app/tools/key_assessment_criteria_tool.py: the word count penalty.      *)
(*                                                                         *)
(* An essay is a sequence of pieces.  A piece is a run of whitespace or a  *)
(* text of n >= 1 words separated by single blanks, with no whitespace at  *)
(* its ends; two such texts that follow each other directly are joined,    *)
(* the last word of the first running into the first word of the second.   *)

Whitespace == [kind |-> "whitespace"]
Words(n) == [kind |-> "words", n |-> n]

\* len(essay.split()) with the join of adjacent texts forgotten
split_len_unjoined(essay) ==
    LET RECURSIVE count(_)
        count(e) ==
            IF e = <<>> THEN 0
            ELSE IF Head(e).kind = "whitespace" THEN count(Tail(e))
            ELSE Head(e).n + count(Tail(e))
    IN  count(essay)

\* len(essay.split()): str.split() cuts at every run of whitespace and
\* drops the empty strings
split_len(essay) ==
    LET RECURSIVE count(_)
        count(e) ==
            IF e = <<>> THEN 0
            ELSE IF Head(e).kind = "whitespace" THEN count(Tail(e))
            ELSE IF Tail(e) # <<>> /\ Head(Tail(e)).kind = "words"
                 THEN (Head(e).n - 1) + count(Tail(e))
                 ELSE Head(e).n + count(Tail(e))
    IN  count(essay)

\* the rubric data: data[exam_type][task_type_name]["word_requirement"]
WordRequirement(exam_type, task_type_name) ==
    IF task_type_name = "Task 1" THEN 150 ELSE 250

get_task_word_requirement(essay_type) ==
    LET m == map_essay_type(essay_type) IN
    IF m.outcome = "raised" THEN m
    ELSE Returned(WordRequirement(m.value.exam_type, m.value.task_type_str))

slight_penalty == "REDUCE the Task Achievement Band score by 0.5"
stronger_penalty == "REDUCE the Task Achievement Band score by 1 band or more depending on Task Achievement impact."
critical_penalty == "The Task Achievement Band score should *not exceed Band score 5* for Task Achievement"
no_penalty == "no word count penalty applies."

\* f"The minimum words required for this task is: {word_requirement}. This
\* essay actually has {actual_word_count} words: " + penalty
general_response(word_requirement, actual_word_count, penalty) ==
    [word_requirement |-> word_requirement,
     actual_word_count |-> actual_word_count,
     penalty |-> penalty]

\* get_word_count_penalty with the slight tier of the 250 word tasks
\* starting ten words below the minimum, as that of the 150 word tasks does
get_word_count_penalty_symmetric(essay_type, essay) ==
    LET word_requirement == get_task_word_requirement(essay_type)
        actual_word_count == split_len(essay)
        answer(penalty) == Returned(general_response(word_requirement.value,
                                                     actual_word_count, penalty))
    IN  IF word_requirement.outcome = "raised" THEN word_requirement
        ELSE IF essay_type \in {1, 3}
        THEN IF actual_word_count < 150 /\ actual_word_count >= 140
             THEN answer(slight_penalty)
             ELSE IF actual_word_count < 140 THEN answer(stronger_penalty)
             ELSE IF actual_word_count < 100 THEN answer(critical_penalty)
             ELSE answer(no_penalty)
        ELSE IF essay_type \in {2, 4}
        THEN IF actual_word_count < 250 /\ actual_word_count >= 240
             THEN answer(slight_penalty)
             ELSE IF actual_word_count < 240 THEN answer(stronger_penalty)
             ELSE IF actual_word_count < 200 THEN answer(critical_penalty)
             ELSE answer(no_penalty)
        ELSE Returned(NoneValue)      \* no branch taken: the function ends

\* get_word_count_penalty, lines 284-328, the if / elif chains in the
\* order of the code
get_word_count_penalty(essay_type, essay) ==
    LET word_requirement == get_task_word_requirement(essay_type)
        actual_word_count == split_len(essay)
        answer(penalty) == Returned(general_response(word_requirement.value,
                                                     actual_word_count, penalty))
    IN  IF word_requirement.outcome = "raised" THEN word_requirement
        ELSE IF essay_type \in {1, 3}
        THEN IF actual_word_count < 150 /\ actual_word_count >= 140
             THEN answer(slight_penalty)
             ELSE IF actual_word_count < 140 THEN answer(stronger_penalty)
             ELSE IF actual_word_count < 100 THEN answer(critical_penalty)
             ELSE answer(no_penalty)
        ELSE IF essay_type \in {2, 4}
        THEN IF actual_word_count < 250 /\ actual_word_count >= 230
             THEN answer(slight_penalty)
             ELSE IF actual_word_count < 230 THEN answer(stronger_penalty)
             ELSE IF actual_word_count < 200 THEN answer(critical_penalty)
             ELSE answer(no_penalty)
        ELSE Returned(NoneValue)      \* no branch taken: the function ends

\* Harness: Init draws the essay type and the essay, the action makes the
\* call.
Essays ==
    {<<>>, <<Whitespace>>}
        \cup {<<Words(n)>> : n \in 1..MaxWords}
        \cup {<<Whitespace, Words(n), Whitespace>> : n \in 1..MaxWords}
        \cup {<<Words(a), Whitespace, Whitespace, Words(b)>> :
                 a \in 1..MaxWords, b \in 1..MaxTail}
        \cup {<<Words(a), Words(b)>> : a \in 1..MaxWords, b \in 1..MaxTail}

InitPenalty ==
    /\ h_args \in {[fn |-> "get_word_count_penalty", essay_type |-> et,
                    essay |-> e] :
                      et \in (1 - Slack)..(4 + Slack), e \in Essays}
    /\ h_ret = Pending
    /\ WorkflowIdle
    /\ GapIdle

CallGetWordCountPenalty ==
    /\ h_args.fn = "get_word_count_penalty"
    /\ h_ret = Pending
    /\ h_ret' = get_word_count_penalty(h_args.essay_type, h_args.essay)
    /\ UNCHANGED <<h_args, wvars, gvars, evars>>

NextPenalty == CallGetWordCountPenalty

SpecPenalty == InitPenalty /\ [][NextPenalty]_vars

----------------------------------------------------------------------------
(* agent_files/image_description_agent.py: the image description step.     *)
(* The answer of the network to requests.head and the answer of the image  *)
(* model are inputs of the step.                                           *)

ImageUrl == "https://host/chart.png"
SuppliedDescription == "Bar chart of sales by year"
GeneratedDescription == "Line graph of rainfall by month"

\* what requests.head(url, allow_redirects=True, timeout=5) can do
HeadOutcomes ==
    {[raised |-> TRUE, exc |-> e] : e \in {"ConnectionError", "Timeout"}}
        \cup {[raised |-> FALSE, status_code |-> c, content_type |-> t] :
                 c \in {200, 204, 404, 500},
                 t \in {"image/png", "image/jpeg", "text/html", ""}}

\* content_type.startswith('image/')
StartsWithImage(content_type) == content_type \in {"image/png", "image/jpeg"}

\* is_image_url: a RequestException, which raise_for_status raises for a
\* 4xx or 5xx status, is caught and gives False
is_image_url(head) ==
    IF head.raised THEN FALSE
    ELSE IF head.status_code >= 400 THEN FALSE
    ELSE StartsWithImage(head.content_type)
            /\ (200 <= head.status_code /\ head.status_code < 300)

\* Python values of different types, told apart by their type
ImageDescriptionOutput(description) ==
    [type |-> "ImageDescriptionOutput", image_description |-> description]
StrValue(text) == [type |-> "str", str |-> text]

\* what image_structured.invoke([prompt]) can do: raise, return no parsed
\* object, return a bare empty string, or return an ImageDescriptionOutput
\* whose description is null, empty or a text
ImageResponses ==
    {Raised("image_structured.invoke failed"), Returned(NoneValue),
     Returned(StrValue(""))}
        \cup {Returned(ImageDescriptionOutput(d)) :
                 d \in {None, "", GeneratedDescription}}

\* the image model being asked whatever description the submission has
invokes_image_llm_always(input_state, head) ==
    input_state.image_url # None /\ is_image_url(head)

\* lines 75-77: the condition under which the image model is asked
invokes_image_llm(input_state, head) ==
    /\ input_state.image_url # None
    /\ is_image_url(head)
    /\ \/ input_state.image_description = None
       \/ input_state.image_description = ""      \* len(...) == 0
       \/ input_state.image_description = "null"

\* image_evaluation answering with no description when it does not ask
\* the image model
image_evaluation_drops(input_state, head, response) ==
    IF invokes_image_llm(input_state, head)
    THEN IF response.outcome = "raised" THEN response
         ELSE IF response.value = StrValue("")
              THEN Returned(ImageDescriptionOutput(input_state.image_description))
              ELSE response
    ELSE Returned(ImageDescriptionOutput(None))

\* image_evaluation, lines 75-84.  `response == "" or None` is
\* `(response == "") or None`: it holds for the bare empty string only.
image_evaluation(input_state, head, response) ==
    IF invokes_image_llm(input_state, head)
    THEN IF response.outcome = "raised" THEN response
         ELSE IF response.value = StrValue("")
              THEN Returned(ImageDescriptionOutput(input_state.image_description))
              ELSE response
    ELSE Returned(ImageDescriptionOutput(input_state.image_description))

\* image_agent: graph.invoke on the one-node subgraph.  The input's
\* image_description is written to the channel first; a node result of None
\* writes nothing, an ImageDescriptionOutput overwrites the channel; the
\* output is the channel.
image_agent(data, head, response) ==
    LET r == image_evaluation(data, head, response) IN
    IF r.outcome = "raised" THEN r
    ELSE IF r.value = NoneValue
         THEN Returned([image_description |-> data.image_description])
         ELSE Returned([image_description |-> r.value.image_description])

\* what is_image_url answered, if image_evaluation asked (line 75: not
\* for a submission without image_url)
ImageCheck(input_state, head) ==
    IF input_state.image_url = None THEN "not made"
    ELSE IF is_image_url(head) THEN "image" ELSE "no image"

\* Harness of the image description step: Init draws the submission, the
\* call draws the answers of the network and of the image model, and the
\* step can be run again on its own output.
ImageInputs ==
    {[image_url |-> u, image_description |-> d] :
        u \in {None, ImageUrl},
        d \in {None, "", "null", SuppliedDescription}}

InitImage ==
    /\ h_args \in {[fn |-> "image_agent", image_url |-> i.image_url,
                     image_description |-> i.image_description,
                     previous |-> <<>>] : i \in ImageInputs}
    /\ h_ret = Pending
    /\ WorkflowIdle
    /\ GapIdle

CallImageAgent ==
    /\ h_args.fn = "image_agent"
    /\ h_ret = Pending
    /\ \E head \in HeadOutcomes, response \in ImageResponses :
          h_ret' = image_agent(h_args, head, response)
                      @@ [image_check |-> ImageCheck(h_args, head),
                          llm_calls |-> IF invokes_image_llm(h_args, head)
                                        THEN 1 ELSE 0,
                          response |-> IF invokes_image_llm(h_args, head)
                                       THEN response ELSE Pending]
    /\ UNCHANGED <<h_args, wvars, gvars, evars>>

\* the step is given its own output as the submission's description
RunImageAgentAgain ==
    /\ h_args.fn = "image_agent"
    /\ h_ret.outcome = "returned"
    /\ Len(h_args.previous) < MaxReruns
    /\ h_args' = [h_args EXCEPT
                     !.image_description = h_ret.value.image_description,
                     !.previous = Append(@, [image_description |->
                                                h_args.image_description,
                                             result |-> h_ret])]
    /\ h_ret' = Pending
    /\ UNCHANGED <<wvars, gvars, evars>>

NextImage == CallImageAgent \/ RunImageAgentAgain

SpecImage == InitImage /\ [][NextImage]_vars

----------------------------------------------------------------------------
(* agent_files/central_agent.py: the combined graph.  START fans out to    *)
(* the four retriable scoring nodes, which run in one superstep; their     *)
(* writes are applied when the superstep ends; then the aggregator, then   *)
(* the retriable gap analysis node.                                        *)

Branches == {"grammar_evaluation", "lexical_evaluation", "task_evaluation",
             "coherence_evaluation"}

\* the fields each scoring agent's output schema holds
OutputScore(b) ==
    CASE b = "grammar_evaluation" -> "grammar_score"
      [] b = "lexical_evaluation" -> "lexical_score"
      [] b = "task_evaluation" -> "task_score"
      [] b = "coherence_evaluation" -> "coherence_score"

\* output schemas that share one comment field
OutputComment_shared(b) == "grammar_comment"

OutputComment(b) ==
    CASE b = "grammar_evaluation" -> "grammar_comment"
      [] b = "lexical_evaluation" -> "lexical_comment"
      [] b = "task_evaluation" -> "task_comment"
      [] b = "coherence_evaluation" -> "coherence_comment"

\* a node whose retry wrapper has not been entered yet; image_check is
\* what is_image_url answered in the node's last attempt
NotStarted ==
    [attempts |-> 0, status |-> "pending", input |-> EmptyDict,
     writes |-> EmptyDict, image_check |-> "not made", image_llm_calls |-> 0]

\* a retry wrapper that allows one attempt too many
MayRetry_one_more(attempts) == attempts <= StopAfterAttempt

\* with_retry(stop_after_attempt=5): may another attempt be made after
\* `attempts` failed ones
MayRetry(attempts) == attempts < StopAfterAttempt

\* what a submission can say about its image: no reference and no
\* description, a description alone, a reference with a description, a
\* reference alone
SubmittedImages ==
    {[essay_type |-> 2, image_url |-> None, image_description |-> None],
     [essay_type |-> 1, image_url |-> None,
      image_description |-> SuppliedDescription],
     [essay_type |-> 3, image_url |-> ImageUrl,
      image_description |-> SuppliedDescription],
     [essay_type |-> 3, image_url |-> ImageUrl, image_description |-> None]}

\* the submission: InputState, and the default of overall_feedback
Submissions ==
    {[track_id |-> IF i.image_url = None THEN "track"
                                           ELSE "456@same_track_id@456",
      essay_type |-> i.essay_type,
      target_band |-> MaxTarget, image_url |-> i.image_url,
      image_description |-> i.image_description,
      overall_feedback |-> DefaultFeedback] : i \in SubmittedImages}

InitWF ==
    /\ HarnessIdle
    /\ state \in Submissions
    /\ wf_step = "fanout"
    /\ branch = [b \in Branches |-> NotStarted]
    /\ gap_attempts = 0
    /\ environ = None
    /\ meta = Unscheduled
    /\ GapIdle

\* the ways the image description step of an attempt can go: what the
\* image check answered and what image_agent gave.  Only the task agent
\* has the step (task_agent.py, node Image_Desc_Tool).
ImageSteps(b, input_state) ==
    IF b = "task_evaluation"
    THEN {[image_check |-> ImageCheck(input_state, head),
           image_llm_calls |-> IF invokes_image_llm(input_state, head)
                               THEN 1 ELSE 0,
           result |-> image_agent(input_state, head, response)] :
             head \in HeadOutcomes, response \in ImageResponses}
    ELSE {[image_check |-> "not made", image_llm_calls |-> 0,
           result |-> Returned(EmptyDict)]}

\* one attempt of a scoring agent returns its structured output; the task
\* agent's output (TaskOutputState) also holds the image description that
\* its image description step returned
AgentSucceeds(b) ==
    /\ wf_step = "fanout"
    /\ branch[b].status = "pending"
    /\ \E score \in WfScores, step \in ImageSteps(b, state) :
          /\ step.result.outcome = "returned"
          /\ branch' = [branch EXCEPT ![b] =
                [attempts |-> @.attempts + 1,
                 status |-> "ok",
                 input |-> state,
                 writes |->
                    (OutputScore(b) :> score)
                       @@ (OutputComment(b) :> CommentOf(OutputComment(b)))
                       @@ step.result.value,
                 image_check |-> step.image_check,
                 image_llm_calls |-> step.image_llm_calls]]
    /\ UNCHANGED <<state, wf_step, gap_attempts, hvars, gvars, evars>>

\* one attempt of a scoring agent raises: the wrapper tries again, or gives
\* up after the last attempt and lets the exception out
AgentFails(b) ==
    /\ wf_step = "fanout"
    /\ branch[b].status = "pending"
    /\ branch' = [branch EXCEPT ![b] =
                     [attempts |-> @.attempts + 1,
                      status |-> IF MayRetry(@.attempts + 1) THEN "pending"
                                                             ELSE "raised",
                      input |-> state,
                      writes |-> EmptyDict,
                      image_check |-> "not made",
                      image_llm_calls |-> 0]]
    /\ UNCHANGED <<state, wf_step, gap_attempts, hvars, gvars, evars>>

\* a workflow without the barrier: the aggregator is scheduled as soon as
\* one scoring node is done
SuperstepOver_any == \E b \in Branches : branch[b].status # "pending"

\* the superstep of the four scoring nodes is over
SuperstepOver == \A b \in Branches : branch[b].status # "pending"

RECURSIVE merge(_, _)
merge(writes, bs) ==
    IF bs = {} THEN EmptyDict
    ELSE LET b == CHOOSE x \in bs : TRUE
         IN  writes[b] @@ merge(writes, bs \ {b})

\* a fan-in that goes on with the branches that succeeded
FanIn_partial ==
    /\ wf_step = "fanout"
    /\ SuperstepOver
    /\ IF \A b \in Branches : branch[b].status = "raised"
       THEN /\ wf_step' = "failed"
            /\ UNCHANGED <<state, branch>>
       ELSE /\ wf_step' = "aggregate"
            /\ state' = merge([b \in Branches |-> branch[b].writes],
                              {b \in Branches : branch[b].status = "ok"}) @@ state
            /\ branch' = [b \in Branches |->
                            [attempts |-> 0, status |-> branch[b].status,
                             input |-> EmptyDict, writes |-> EmptyDict,
                             image_check |-> "not made",
                             image_llm_calls |-> 0]]
    /\ UNCHANGED <<gap_attempts, hvars, gvars, evars>>

\* end of the superstep: an exception of any node fails the run; otherwise
\* the writes are applied to the channels and the aggregator is scheduled.
\* The finished tasks, with their retry counters, are dropped.
FanIn ==
    /\ wf_step = "fanout"
    /\ SuperstepOver
    /\ IF \E b \in Branches : branch[b].status = "raised"
       THEN /\ wf_step' = "failed"
            /\ UNCHANGED <<state, branch>>
       ELSE /\ wf_step' = "aggregate"
            /\ state' = merge([b \in Branches |-> branch[b].writes],
                              {b \in Branches : branch[b].status = "ok"}) @@ state
            /\ branch' = [b \in Branches |->
                            [attempts |-> 0, status |-> branch[b].status,
                             input |-> EmptyDict, writes |-> EmptyDict,
                             image_check |-> "not made",
                             image_llm_calls |-> 0]]
    /\ UNCHANGED <<gap_attempts, hvars, gvars, evars>>

\* lines 77-84: the flag, from the value of EVAL_MONITORING (None: unset;
\* the empty string is falsy)
eval_monitoring ==
    IF environ # None /\ environ # ""
          /\ Lower(environ) \in {"true", "1", "yes", "y"}
    THEN TRUE
    ELSE FALSE

\* a graph that has the meta-evaluation edges whatever the flag is
Aggregator_always ==
    /\ wf_step = "aggregate"
    /\ wf_step' = "gap"
    /\ meta' = [attempts |-> 0, status |-> "pending"]
    /\ UNCHANGED <<state, branch, gap_attempts, hvars, gvars, environ>>

\* aggregator: returns its input, which writes nothing new; its successors
\* are scheduled for the next superstep: gap_analysis (line 92) and, if the
\* edge of line 88 was added, meta_evaluation
Aggregator ==
    /\ wf_step = "aggregate"
    /\ wf_step' = "gap"
    /\ meta' = IF eval_monitoring THEN [attempts |-> 0, status |-> "pending"]
                                  ELSE meta
    /\ UNCHANGED <<state, branch, gap_attempts, hvars, gvars, environ>>

\* gap_retriable calls gap_analysis_agent on the state
GapAttempt ==
    /\ wf_step = "gap"
    /\ gpc = "idle"
    /\ MayRetry(gap_attempts)
    /\ gap_attempts' = gap_attempts + 1
    /\ gpc' = "start"
    /\ UNCHANGED <<state, wf_step, branch, hvars, overall_band, weak_bands,
                   weak_comments, descriptor_data, criteria_data, prompt, todo,
                   calls, gap_result, evars>>

\* one attempt of meta_eval_agent returns its EvaluationOutputState, none
\* of whose keys is a channel of CentralAgentState: nothing is written
MetaSucceeds ==
    /\ wf_step = "gap"
    /\ meta.status = "pending"
    /\ meta' = [attempts |-> meta.attempts + 1, status |-> "ok"]
    /\ UNCHANGED <<wvars, hvars, gvars, environ>>

\* one attempt of meta_eval_agent raises (a lookup, the generation call,
\* safe_json_parse, a missing key of the answer, the file): the wrapper
\* tries again, or gives up after the last attempt
MetaFails ==
    /\ wf_step = "gap"
    /\ meta.status = "pending"
    /\ meta' = [attempts |-> meta.attempts + 1,
                status |-> IF MayRetry(meta.attempts + 1) THEN "pending"
                                                          ELSE "raised"]
    /\ UNCHANGED <<wvars, hvars, gvars, environ>>

\* the keys of a node's result that are channels of CentralAgentState
CentralKeys ==
    {"track_id", "essay_type", "target_band", "image_url",
     "image_description", "overall_feedback"}
        \cup ScoreFields \cup CommentFields

\* gap analysis returned and the superstep is over.  An exception of
\* meta_evaluation fails the run; otherwise gap analysis's overall_feedback
\* is written to the state, the keys that are no channel are dropped, and
\* the graph reaches END: invoke returns.
GapNodeReturns ==
    /\ wf_step = "gap"
    /\ gpc = "returned"
    /\ meta.status # "pending"
    /\ IF meta.status = "raised"
       THEN /\ wf_step' = "failed"
            /\ UNCHANGED state
       ELSE /\ LET updates == [k \in DOMAIN gap_result.value \cap CentralKeys |->
                                  gap_result.value[k]]
               IN  state' = updates @@ state
            /\ wf_step' = "end"
    /\ UNCHANGED <<branch, gap_attempts, hvars, gvars, evars>>

\* gap analysis raised: the wrapper tries again, or lets the exception out,
\* which fails the run when the superstep is over
GapNodeRaises ==
    /\ wf_step = "gap"
    /\ gpc = "raised"
    /\ IF MayRetry(gap_attempts)
       THEN gpc' = "idle" /\ UNCHANGED wf_step
       ELSE /\ meta.status # "pending"
            /\ wf_step' = "failed"
            /\ UNCHANGED gpc
    /\ UNCHANGED <<state, branch, gap_attempts, hvars, overall_band, weak_bands,
                   weak_comments, descriptor_data, criteria_data, prompt, todo,
                   calls, gap_result, evars>>

\* combined_graph.invoke returned: the channels of OutputState
OutputKeys ==
    {"track_id", "overall_feedback", "image_description"}
        \cup ScoreFields \cup CommentFields

\* invoke returning every channel of the state
evaluate_essay_all_channels == state

evaluate_essay == [k \in OutputKeys \cap DOMAIN state |-> state[k]]

NextWF ==
    \/ \E b \in Branches : AgentSucceeds(b)
    \/ \E b \in Branches : AgentFails(b)
    \/ FanIn
    \/ Aggregator
    \/ GapAttempt
    \/ GapStart
    \/ GapLoop
    \/ GapGenerate
    \/ GapGenerateFails
    \/ GapNodeReturns
    \/ GapNodeRaises

SpecWF == InitWF /\ [][NextWF]_vars

\* The workflow from the aggregator on, under every value of
\* EVAL_MONITORING: the state the fan-in leaves, the four scoring nodes
\* done.
EnvValues ==
    {None, "", "true", "True", "TRUE", "1", "yes", "YES", "y", "Y",
     "false", "0", "no", "on", "enabled", "2"}

ScoredStates ==
    {[grammar_score |-> s, coherence_score |-> s, lexical_score |-> s,
      task_score |-> t,
      grammar_comment |-> CommentOf("grammar_comment"),
      coherence_comment |-> CommentOf("coherence_comment"),
      lexical_comment |-> CommentOf("lexical_comment"),
      task_comment |-> CommentOf("task_comment")] @@ sub :
        s \in WfScores, t \in WfScores, sub \in Submissions}

InitMeta ==
    /\ HarnessIdle
    /\ state \in ScoredStates
    /\ wf_step = "aggregate"
    /\ branch = [b \in Branches |->
                    [attempts |-> 0, status |-> "ok", input |-> EmptyDict,
                     writes |-> EmptyDict, image_check |-> "not made",
                     image_llm_calls |-> 0]]
    /\ gap_attempts = 0
    /\ environ \in EnvValues
    /\ meta = Unscheduled
    /\ GapIdle

NextMeta ==
    \/ Aggregator
    \/ GapAttempt
    \/ GapStart
    \/ GapLoop
    \/ GapGenerate
    \/ GapGenerateFails
    \/ MetaSucceeds
    \/ MetaFails
    \/ GapNodeReturns
    \/ GapNodeRaises

SpecMeta == InitMeta /\ [][NextMeta]_vars

----------------------------------------------------------------------------
(* agent_files/agent_states.py: the validation of a submission by          *)
(* InputState, and app/main.py: the process_essay endpoint.                *)

TrackIdMinLength == 3 \* InputState.track_id min_length
TextMinLength == 1    \* InputState.question / InputState.essay min_length
DefaultEssayType == 2 \* InputState.essay_type default
DefaultTargetBand == MaxTarget \* InputState.target_band default

\* the values of a request body, told apart by their type; Absent is a key
\* the body does not have, a float is written in halves
Absent == [type |-> "absent"]
IntValue(n) == [type |-> "int", value |-> n]
FloatValue(halves) == [type |-> "float", halves |-> halves]

ValidationError == Raised("ValidationError")

\* the numerals among the strings of the model, with their value
Numerals == [t \in {"5"} |-> 5]

\* a str field with min_length: only a string is taken, None and numbers
\* are not coerced
validate_str(v, min_length) ==
    IF v.type = "str" /\ Len(v.str) >= min_length
    THEN Returned(v.str)
    ELSE ValidationError

\* an Optional[str] field with default None
validate_optional_str(v) ==
    IF v.type \in {"absent", "NoneType"} THEN Returned(None)
    ELSE IF v.type = "str" THEN Returned(v.str)
    ELSE ValidationError

\* an int field with a default and ge / le: an int is taken as it is, a
\* float when it has no fractional part, a string when it is a numeral
validate_int(v, default, ge, le) ==
    LET ints == CASE v.type = "absent" -> {default}
                  [] v.type = "int" -> {v.value}
                  [] v.type = "float" /\ v.halves % 2 = 0 -> {v.halves \div 2}
                  [] v.type = "str" /\ v.str \in DOMAIN Numerals ->
                         {Numerals[v.str]}
                  [] OTHER -> {}
    IN  IF v.type = "absent" THEN Returned(default)
        ELSE IF \E n \in ints : ge <= n /\ n <= le
        THEN Returned(CHOOSE n \in ints : TRUE)
        ELSE ValidationError

\* InputState without its constraints: every body with the right types
\* passes
InputState_unconstrained(data) ==
    LET track_id == validate_str(data.track_id, 0)
        question == validate_str(data.question, 0)
        essay == validate_str(data.essay, 0)
        essay_type == validate_int(data.essay_type, DefaultEssayType,
                                   1 - Slack - Slack, 4 + Slack + Slack)
        target_band == validate_int(data.target_band, DefaultTargetBand,
                                    MinTarget - Slack - Slack,
                                    MaxTarget + Slack + Slack)
        image_url == validate_optional_str(data.image_url)
        image_description == validate_optional_str(data.image_description)
        outcomes == {track_id.outcome, question.outcome, essay.outcome,
                     essay_type.outcome, target_band.outcome,
                     image_url.outcome, image_description.outcome}
    IN  IF "raised" \in outcomes
        THEN ValidationError
        ELSE Returned([track_id |-> track_id.value,
                       question |-> question.value,
                       essay |-> essay.value,
                       essay_type |-> essay_type.value,
                       target_band |-> target_band.value,
                       image_url |-> image_url.value,
                       image_description |-> image_description.value])

\* InputState(**data): the validated model, or pydantic's ValidationError
\* when a field fails
InputState(data) ==
    LET track_id == validate_str(data.track_id, TrackIdMinLength)
        question == validate_str(data.question, TextMinLength)
        essay == validate_str(data.essay, TextMinLength)
        essay_type == validate_int(data.essay_type, DefaultEssayType, 1, 4)
        target_band == validate_int(data.target_band, DefaultTargetBand,
                                    MinTarget, MaxTarget)
        image_url == validate_optional_str(data.image_url)
        image_description == validate_optional_str(data.image_description)
        outcomes == {track_id.outcome, question.outcome, essay.outcome,
                     essay_type.outcome, target_band.outcome,
                     image_url.outcome, image_description.outcome}
    IN  IF "raised" \in outcomes
        THEN ValidationError
        ELSE Returned([track_id |-> track_id.value,
                       question |-> question.value,
                       essay |-> essay.value,
                       essay_type |-> essay_type.value,
                       target_band |-> target_band.value,
                       image_url |-> image_url.value,
                       image_description |-> image_description.value])

\* the request bodies of the model
TextValues == {Absent, NoneValue, IntValue(5), StrValue(""), StrValue("q")}
TrackIds == {NoneValue, IntValue(5), StrValue(""), StrValue("id"),
             StrValue("456")}
EssayTypeValues ==
    {Absent, StrValue("two"), FloatValue(5), FloatValue(4)}
        \cup {IntValue(n) : n \in (1 - Slack)..(4 + Slack)}
TargetBandValues ==
    {Absent, StrValue("one"), StrValue("5"), FloatValue(5)}
        \cup {IntValue(n) : n \in (MinTarget - Slack)..(MaxTarget + Slack)}
ImageUrlValues == {NoneValue, IntValue(0), StrValue(ImageUrl)}

RequestBodies ==
    [track_id : TrackIds, question : TextValues, essay : TextValues,
     essay_type : EssayTypeValues, target_band : TargetBandValues,
     image_url : ImageUrlValues, image_description : {Absent}]

\* what evaluate_essay can raise, and what the bare except of process_essay
\* catches: every exception
Exceptions ==
    {"ValidationError", "KeyError", "ValueError", "UnboundLocalError",
     "Exception", "KeyboardInterrupt"}

\* what evaluate_essay gives for a validated submission: the channels of
\* OutputState of a run that reached END
FrontendResponses(data) ==
    {[k \in OutputKeys |->
         IF k = "track_id" THEN data.track_id ELSE st[k]] : st \in ScoredStates}

\* a request that was received and not yet looked at
Received ==
    [pc |-> "received", validations |-> 0, invocations |-> 0,
     data |-> NoneValue, raised |-> None, response |-> NoneValue]

\* the answer to a body that fails the validation
RequestValidationError ==
    [type |-> "RequestValidationError", status_code |-> 422]

HTTPException(status_code, detail) ==
    [type |-> "HTTPException", status_code |-> status_code,
     detail |-> detail]

JSONResponse(content) ==
    [type |-> "JSONResponse", status_code |-> 200, content |-> content]

InitEndpoint ==
    /\ h_args \in {[fn |-> "process_essay", body |-> b] : b \in RequestBodies}
    /\ h_ret = Received
    /\ WorkflowIdle
    /\ GapIdle

\* the body is validated against the parameter data: InputState before the
\* endpoint function is entered; a body that fails is answered 422
ValidateBody ==
    /\ h_args.fn = "process_essay"
    /\ h_ret.pc = "received"
    /\ LET data == InputState(h_args.body)
       IN  h_ret' =
             IF data.outcome = "raised"
             THEN [h_ret EXCEPT !.pc = "responded",
                                !.validations = @ + 1,
                                !.response = RequestValidationError]
             ELSE [h_ret EXCEPT !.pc = "process_essay",
                                !.validations = @ + 1,
                                !.data = data.value]
    /\ UNCHANGED <<h_args, wvars, gvars, evars>>

\* evaluate_essay(data) returned: the else branch of the try statement
EvaluateReturns ==
    /\ h_args.fn = "process_essay"
    /\ h_ret.pc = "process_essay"
    /\ \E frontend_response \in FrontendResponses(h_ret.data) :
          h_ret' = [h_ret EXCEPT
                       !.pc = "responded",
                       !.invocations = @ + 1,
                       !.response =
                           JSONResponse([data |-> frontend_response])]
    /\ UNCHANGED <<h_args, wvars, gvars, evars>>

\* the error answer without the fixed detail: the exception's name is
\* passed on
process_essay_except_leaky(e) == HTTPException(500, e)

\* evaluate_essay(data) raised: the bare except clause
process_essay_except(e) == HTTPException(500, "Unable to Process Feedback")

EvaluateRaises ==
    /\ h_args.fn = "process_essay"
    /\ h_ret.pc = "process_essay"
    /\ \E e \in Exceptions :
          h_ret' = [h_ret EXCEPT !.pc = "responded",
                                 !.invocations = @ + 1,
                                 !.raised = e,
                                 !.response = process_essay_except(e)]
    /\ UNCHANGED <<h_args, wvars, gvars, evars>>

NextEndpoint ==
    \/ ValidateBody
    \/ EvaluateReturns
    \/ EvaluateRaises

SpecEndpoint == InitEndpoint /\ [][NextEndpoint]_vars

----------------------------------------------------------------------------
(* The workflow from the aggregator on when gap_retriable is handed a      *)
(* state whose essay category is not a known one: the Descriptor Store     *)
(* lookup of gap_analysis raises.                                          *)

UncheckedStates ==
    {[st EXCEPT !.essay_type = et] :
        st \in ScoredStates, et \in (1 - Slack)..(4 + Slack)}

InitData ==
    /\ HarnessIdle
    /\ state \in UncheckedStates
    /\ wf_step = "aggregate"
    /\ branch = [b \in Branches |->
                    [attempts |-> 0, status |-> "ok", input |-> EmptyDict,
                     writes |-> EmptyDict, image_check |-> "not made",
                     image_llm_calls |-> 0]]
    /\ gap_attempts = 0
    /\ environ = None
    /\ meta = Unscheduled
    /\ GapIdle

NextData ==
    \/ Aggregator
    \/ GapAttempt
    \/ GapStart
    \/ GapLoop
    \/ GapGenerate
    \/ GapGenerateFails
    \/ GapNodeReturns
    \/ GapNodeRaises

SpecData == InitData /\ [][NextData]_vars

----------------------------------------------------------------------------
(* The Descriptor Store lookups on their own.  Harness: Init draws the     *)
(* lookup and its arguments, the action makes the call.                    *)

AgentNames ==
    {"grammar_agent", "lexical_agent", "coherence_agent", "task_agent",
     "GRAMMAR_AGENT", "LEXICAL_agent", "Coherence_Agent", "task_AGEnt",
     "task", "TASK", "grammar", "overall_agent", ""}

Lookups ==
    {"get_all_band_descriptors_by_criteria",
     "get_target_band_descriptors_by_criteria",
     "get_assessment_by_criteria", "get_task_description",
     "get_task_word_requirement"}

InitLookup ==
    /\ h_args \in [fn : Lookups,
                   essay_type : (1 - Slack)..(4 + Slack),
                   agent : AgentNames,
                   band : (MinTarget - Slack)..(MaxTarget + Slack)]
    /\ h_ret = Pending
    /\ WorkflowIdle
    /\ GapIdle

CallLookup ==
    /\ h_args.fn \in Lookups
    /\ h_ret = Pending
    /\ h_ret' =
         CASE h_args.fn = "get_all_band_descriptors_by_criteria" ->
                  get_all_band_descriptors_by_criteria(h_args.essay_type,
                                                       h_args.agent)
           [] h_args.fn = "get_target_band_descriptors_by_criteria" ->
                  get_target_band_descriptors_by_criteria(
                      h_args.essay_type, h_args.agent, h_args.band)
           [] h_args.fn = "get_assessment_by_criteria" ->
                  get_assessment_by_criteria(h_args.essay_type, h_args.agent)
           [] h_args.fn = "get_task_description" ->
                  get_task_description(h_args.essay_type)
           [] h_args.fn = "get_task_word_requirement" ->
                  get_task_word_requirement(h_args.essay_type)
    /\ UNCHANGED <<h_args, wvars, gvars, evars>>

SpecLookup == InitLookup /\ [][CallLookup]_vars

----------------------------------------------------------------------------
(* agent_files/grammar_agent.py, lexical_agent.py, coherence_agent.py:     *)
(* the evaluation request of a scoring agent.                              *)
(*                                                                         *)
(* An essay text is a sequence of tokens: a word "w", a blank " " or a     *)
(* line break "\n".  A formatted prompt is the record of the values put    *)
(* in the template's fields; the notes are the sequence of their lines.    *)

MaxEssayLen == 3  \* longest essay text, in tokens

\* the replacement fields of IELTS_EVALUATION_PROMPT's template
IELTS_EVALUATION_PROMPT ==
    {"criteria", "goal_aditional", "task_description_output", "question",
     "essay", "criteria_tool_output", "band_tool_output", "notes",
     "output_score", "output_comments"}

\* PromptTemplate.format(**kwargs): a field without a value is a KeyError
format(template, kwargs) ==
    IF template \subseteq DOMAIN kwargs
    THEN Returned([k \in template |-> kwargs[k]])
    ELSE Raised("KeyError")

\* needle in text, for token sequences
In(needle, text) ==
    \E i \in 0..(Len(text) - Len(needle)) :
        \A j \in 1..Len(needle) : text[i + j] = needle[j]

\* the truth value of a string
Truthy(text) == Len(text) > 0

no_line_breaks_note ==
    "ATTENTION: The essay contains NO line breaks. The Coherence and Cohesion score MUST be reduced by 1-2 bands"
general_paragraphing_note ==
    "No paragraph breaks in the text should result in a 1-2 band reduction in Coherence and Cohesion"
band_1_note == "Responses of 20 words or fewer are rated at Band 1."

\* the node tools of a scoring agent's subgraph, name being llm.name
tools(input_state, name) ==
    LET band == get_all_band_descriptors_by_criteria(input_state.essay_type, name)
        task == get_task_description(input_state.essay_type)
        criteria == get_assessment_by_criteria(input_state.essay_type, name)
    IN  IF band.outcome = "raised" THEN band
        ELSE IF task.outcome = "raised" THEN task
        ELSE IF criteria.outcome = "raised" THEN criteria
        ELSE Returned([band_tool_output |-> band.value,
                       task_tool_output |-> task.value,
                       criteria_tool_output |-> criteria.value])

\* grammar_evaluation up to the call of the model: the prompt
grammar_evaluation(input_state) ==
    format(IELTS_EVALUATION_PROMPT,
           [essay |-> input_state.essay,
            question |-> input_state.question,
            criteria |-> "Grammatical Range and Accuracy",
            output_score |-> "grammar_score",
            output_comments |-> "grammar_comment",
            task_description_output |-> input_state.task_tool_output,
            criteria_tool_output |-> input_state.criteria_tool_output,
            band_tool_output |-> input_state.band_tool_output])

\* lexical_evaluation up to the call of the model
lexical_evaluation(input_state) ==
    format(IELTS_EVALUATION_PROMPT,
           [essay |-> input_state.essay,
            question |-> input_state.question,
            criteria |-> "Lexical Resource",
            output_score |-> "lexical_score",
            output_comments |-> "lexical_comment",
            task_description_output |-> input_state.task_tool_output,
            criteria_tool_output |-> input_state.criteria_tool_output,
            band_tool_output |-> input_state.band_tool_output,
            goal_aditional |-> "Ignore grammatical errors, sentence structure, and task achievement.",
            notes |-> <<band_1_note>>])

\* line 75: `if "\n" or "\n\n" not in input_state.essay`
note_paragraphing(essay) ==
    IF Truthy(<<"\n">>) \/ ~In(<<"\n", "\n">>, essay)
    THEN no_line_breaks_note
    ELSE general_paragraphing_note

\* coherence_evaluation up to the call of the model
coherence_evaluation(input_state) ==
    format(IELTS_EVALUATION_PROMPT,
           [essay |-> input_state.essay,
            question |-> input_state.question,
            criteria |-> "Coherence & Cohesion",
            output_score |-> "coherence_score",
            output_comments |-> "coherence_comment",
            task_description_output |-> input_state.task_tool_output,
            criteria_tool_output |-> input_state.criteria_tool_output,
            band_tool_output |-> input_state.band_tool_output,
            goal_aditional |-> "Do NOT comment on grammar, vocabulary, spelling, or task achievement.",
            notes |-> <<note_paragraphing(input_state.essay), band_1_note>>])

\* Harness: Init draws the agent and a valid submission, the action runs
\* the agent's subgraph up to the call of the model.
EssayTexts ==
    UNION {[1..n -> {"w", " ", "\n"}] : n \in 1..MaxEssayLen}

Evaluations ==
    [grammar_agent |-> "grammar_evaluation",
     lexical_agent |-> "lexical_evaluation",
     coherence_agent |-> "coherence_evaluation"]

InitAgents ==
    /\ h_args \in [fn : {Evaluations[a] : a \in DOMAIN Evaluations},
                   name : DOMAIN Evaluations,
                   input_state : [essay : EssayTexts, question : {"q"},
                                  essay_type : EssayTypes]]
    /\ Evaluations[h_args.name] = h_args.fn
    /\ h_ret = Pending
    /\ WorkflowIdle
    /\ GapIdle

CallEvaluation ==
    /\ h_args.fn \in {Evaluations[a] : a \in DOMAIN Evaluations}
    /\ h_ret = Pending
    /\ LET out_dict == tools(h_args.input_state, h_args.name)
           tool_state == out_dict.value @@ h_args.input_state
       IN  h_ret' =
             IF out_dict.outcome = "raised" THEN out_dict
             ELSE CASE h_args.fn = "grammar_evaluation" ->
                           grammar_evaluation(tool_state)
                    [] h_args.fn = "lexical_evaluation" ->
                           lexical_evaluation(tool_state)
                    [] h_args.fn = "coherence_evaluation" ->
                           coherence_evaluation(tool_state)
    /\ UNCHANGED <<h_args, wvars, gvars, evars>>

SpecAgents == InitAgents /\ [][CallEvaluation]_vars

----------------------------------------------------------------------------
(* One run of gap_analysis on every combination of four scores in 0..9     *)
(* and a target in 1..9, for one essay type.                               *)

EveryScoreStates ==
    {[track_id |-> "track", essay_type |-> 2, target_band |-> tb,
      grammar_score |-> g, coherence_score |-> c,
      lexical_score |-> l, task_score |-> t,
      grammar_comment |-> CommentOf("grammar_comment"),
      coherence_comment |-> CommentOf("coherence_comment"),
      lexical_comment |-> CommentOf("lexical_comment"),
      task_comment |-> CommentOf("task_comment"),
      overall_feedback |-> DefaultFeedback] :
        tb \in MinTarget..MaxTarget,
        g \in ValidScores, c \in ValidScores, l \in ValidScores,
        t \in ValidScores}

InitGapEvery ==
    /\ HarnessIdle
    /\ state \in EveryScoreStates
    /\ wf_step = "idle"
    /\ branch = EmptyDict
    /\ gap_attempts = 0
    /\ environ = None
    /\ meta = Unscheduled
    /\ gpc = "start"
    /\ overall_band = 0
    /\ weak_bands = EmptyDict
    /\ weak_comments = EmptyDict
    /\ descriptor_data = EmptyDict
    /\ criteria_data = EmptyDict
    /\ prompt = Unbound
    /\ todo = <<>>
    /\ calls = NoCalls
    /\ gap_result = Pending

SpecGapEvery == InitGapEvery /\ [][NextGap]_vars

----------------------------------------------------------------------------
(* The workflow for one submission without an image, under the fairness    *)
(* of the graph runner: a node that is scheduled is run, and each attempt  *)
(* of a node returns or raises.                                            *)

\* the variables that tell where the run is
pcvars == <<wf_step, branch, gpc, gap_attempts, todo>>

InitRetry ==
    /\ InitWF
    /\ state.essay_type = 2
    /\ state.image_url = None
    /\ state.image_description = None

SpecRetry == InitRetry /\ [][NextWF]_vars /\ WF_pcvars(NextWF)

----------------------------------------------------------------------------
(* Properties of the helper functions.                                     *)

BandCalled == h_args.fn = "calculate_overall_band" /\ h_ret # Pending

FourValidScores ==
    /\ Len(h_args.band_scores) = 4
    /\ \A i \in 1..4 : h_args.band_scores[i] \in 0..9

\* the sum of four scores is their average in quarter bands
TrueAverageQ == sum(h_args.band_scores)

(* C1: for four scores in 0..9 calculate_overall_band returns the average  *)
(* rounded down to the nearest half band: twice the band is floor(sum/2);  *)
(* [6,7,7,7] gives 6.5 and [6,6,6,7] gives 6.0.                            *)
C1_OverallBandRoundsDown ==
    (BandCalled /\ FourValidScores) =>
        /\ h_ret.outcome = "returned"
        /\ h_ret.value = 2 * (sum(h_args.band_scores) \div 2)
        /\ (h_args.band_scores = <<6, 7, 7, 7>> => h_ret.value = 26)
        /\ (h_args.band_scores = <<6, 6, 6, 7>> => h_ret.value = 24)
        /\ (h_args.band_scores = <<6, 7, 7, 8>> => h_ret.value = 28)

C1_Witness ==
    /\ BandCalled
    /\ h_args.band_scores = <<6, 7, 7, 7>>
    /\ h_ret = Returned(26)

(* C2: for four scores in 0..9 the overall band lies in [0, 9], is a       *)
(* multiple of 0.5 and is at most the true average.                        *)
C2_OverallBandRange ==
    (BandCalled /\ FourValidScores) =>
        /\ h_ret.outcome = "returned"
        /\ h_ret.value >= 0
        /\ h_ret.value <= 9 * Q
        /\ h_ret.value % 2 = 0
        /\ h_ret.value <= TrueAverageQ

C2_Witness ==
    /\ BandCalled
    /\ FourValidScores
    /\ TrueAverageQ % 4 = 3
    /\ h_ret.outcome = "returned"
    /\ h_ret.value = TrueAverageQ - 1

(* C3: calculate_overall_band raises and returns no band when the list     *)
(* does not hold exactly four scores (the count error, whatever the        *)
(* scores are) and when it holds four scores one of which is outside 0..9  *)
(* (the range error).                                                      *)
C3_OverallBandRejects ==
    BandCalled =>
        /\ Len(h_args.band_scores) # 4 => h_ret = Raised(CountError)
        /\ ( /\ Len(h_args.band_scores) = 4
             /\ \E i \in 1..4 : h_args.band_scores[i] < 0
                                   \/ h_args.band_scores[i] > 9 )
              => h_ret = Raised(RangeError)

C3_Witness ==
    /\ BandCalled
    /\ Len(h_args.band_scores) = 5
    /\ \E i \in 1..5 : h_args.band_scores[i] > 9
    /\ h_ret = Raised(CountError)

WeakCalled == h_args.fn = "get_weak_bands" /\ h_ret # Pending

(* C4: get_weak_bands returns exactly the entries whose score is strictly  *)
(* below the target, scores unchanged; an entry equal to the target is     *)
(* never returned.                                                         *)
C4_WeakBandsStrict ==
    WeakCalled =>
        /\ h_ret.outcome = "returned"
        /\ DOMAIN h_ret.value \subseteq DOMAIN h_args.band_scores
        /\ \A c \in DOMAIN h_args.band_scores :
              /\ (c \in DOMAIN h_ret.value) <=> (h_args.band_scores[c] < h_args.target)
              /\ c \in DOMAIN h_ret.value => h_ret.value[c] = h_args.band_scores[c]
              /\ h_args.band_scores[c] = h_args.target => c \notin DOMAIN h_ret.value

C4_Witness ==
    /\ WeakCalled
    /\ h_args.target = 7
    /\ \E a, b \in DOMAIN h_args.band_scores :
          /\ h_args.band_scores[a] = 5
          /\ h_args.band_scores[b] = 7
          /\ a \in DOMAIN h_ret.value
          /\ b \notin DOMAIN h_ret.value

----------------------------------------------------------------------------
(* Properties of one gap_analysis run (SpecGap).                           *)

AllScoresPresent == ScoreFields \subseteq DOMAIN state

StateSum ==
    state.grammar_score + state.coherence_score + state.lexical_score
        + state.task_score

\* overall band >= target, from the scores: floor(sum / 2) half bands
\* against 2 * target half bands
TargetMetByScores == (StateSum \div 2) >= 2 * state.target_band

WeakByScores ==
    {c \in Criteria : state[ScoreField(c)] < state.target_band}

GapReturned == gpc = "returned" /\ gap_result.outcome = "returned"

(* C5: when the overall band is at or above the target the gap analysis    *)
(* result has target-met = true, an empty weak_bands mapping and the       *)
(* fixed congratulatory message as its feedback.                           *)
C5_TargetMetResult ==
    (gpc = "returned" /\ AllScoresPresent /\ TargetMetByScores) =>
        /\ gap_result.outcome = "returned"
        /\ gap_result.value.overall_feedback = WellDone
        /\ "met_target" \in DOMAIN gap_result.value
        /\ gap_result.value.met_target = TRUE
        /\ "weak_bands" \in DOMAIN gap_result.value
        /\ gap_result.value.weak_bands = EmptyDict

(* C6: when the target is met, no descriptor lookup, no assessment         *)
(* criteria lookup and no generation call is made at any point of the run, *)
(* which goes from its start straight to its return.                       *)
C6_ShortCircuit ==
    (gpc # "idle" /\ AllScoresPresent /\ TargetMetByScores) =>
        /\ calls.descriptor = 0
        /\ calls.criteria = 0
        /\ calls.llm = 0
        /\ gpc \in {"start", "returned"}

C6_Witness ==
    /\ GapReturned
    /\ TargetMetByScores
    /\ WeakByScores # {}
    /\ StateSum = 4 * state.target_band
    /\ calls = NoCalls

(* C7: when the overall band is strictly below the target the result has   *)
(* target-met = false, the computed overall band, weak_bands holding       *)
(* exactly the criteria scoring strictly below the target, and a           *)
(* descriptor and a criteria snapshot with an entry for each weak          *)
(* criterion and for no other.                                             *)
C7_TargetMissedResult ==
    (GapReturned /\ ~TargetMetByScores) =>
        LET v == gap_result.value IN
        /\ v.met_target = FALSE
        /\ v.overall_band = 2 * (StateSum \div 2)
        /\ DOMAIN v.weak_bands = WeakByScores
        /\ \A c \in WeakByScores : v.weak_bands[c] = state[ScoreField(c)]
        /\ DOMAIN v.descriptors_used = WeakByScores
        /\ DOMAIN v.assessment_criteria_used = WeakByScores

C7_Witness ==
    /\ GapReturned
    /\ ~TargetMetByScores
    /\ Cardinality(WeakByScores) = 2
    /\ \E c \in Criteria : state[ScoreField(c)] = state.target_band
    /\ DOMAIN gap_result.value.descriptors_used = WeakByScores

(* C8: a run where the target is not met makes exactly one generation      *)
(* call, however many criteria are weak, and the request it is given       *)
(* holds the comment, the target band descriptor and the assessment        *)
(* criteria of every weak criterion.                                       *)
C8_OneGenerationCall ==
    /\ gpc # "idle" => calls.llm <= 1
    /\ (gpc \in {"returned", "raised"} /\ AllScoresPresent /\ ~TargetMetByScores)
          => calls.llm = 1
    /\ (GapReturned /\ ~TargetMetByScores) =>
          LET request == gap_result.value.overall_feedback.plan_for IN
          \A c \in WeakByScores :
             LET agent == map_criteria_to_agent(c).value IN
             /\ c \in DOMAIN request.weak_comments
             /\ request.weak_comments[c] = state[map_criteria_to_comment(c).value]
             /\ c \in DOMAIN request.target_band_descriptor_data
             /\ request.target_band_descriptor_data[c].description =
                   get_target_band_descriptors_by_criteria(
                       state.essay_type, agent, state.target_band).value
             /\ c \in DOMAIN request.criteria_data
             /\ request.criteria_data[c].description =
                   get_assessment_by_criteria(state.essay_type, agent).value

C8_Witness ==
    /\ GapReturned
    /\ Cardinality(WeakByScores) = 4
    /\ calls = [descriptor |-> 4, criteria |-> 4, llm |-> 1]
    /\ DOMAIN gap_result.value.overall_feedback.plan_for.criteria_data = Criteria

----------------------------------------------------------------------------
(* Properties of the central workflow (SpecWF).                            *)

\* the submission the evaluation was started with
SubmissionOf(st) ==
    [k \in {"track_id", "essay_type", "target_band"} |-> st[k]]

(* C9: a scoring agent is attempted at most 5 times, each time on the      *)
(* submission; a success on attempt k <= 5 gives the branch its score and  *)
(* comment and ends the attempts; only 5 failures make the node raise, it  *)
(* is not attempted again and the evaluation fails.                        *)
C9_RetryInvariant ==
    \A b \in Branches :
        /\ branch[b].attempts <= 5
        /\ branch[b].attempts > 0 =>
              SubmissionOf(branch[b].input) = SubmissionOf(state)
        /\ (wf_step = "fanout" /\ branch[b].status = "ok") =>
              /\ branch[b].attempts \in 1..5
              /\ {OutputScore(b), OutputComment(b)} \subseteq DOMAIN branch[b].writes
              /\ DOMAIN branch[b].writes \subseteq
                    {OutputScore(b), OutputComment(b), "image_description"}
        /\ branch[b].status = "raised" =>
              /\ branch[b].attempts = 5
              /\ wf_step \in {"fanout", "failed"}
        /\ (wf_step = "fanout" /\ branch[b].status = "pending") =>
              branch[b].attempts < 5

C9_RetryStep ==
    \A b \in Branches :
        \* an attempt is one more attempt with the same input as the last
        /\ branch'[b].attempts # branch[b].attempts /\ wf_step' = "fanout" =>
              /\ branch'[b].attempts = branch[b].attempts + 1
              /\ branch[b].status = "pending"
              /\ branch[b].attempts > 0 => branch'[b].input = branch[b].input
        \* a node that returned or raised is not invoked again
        /\ branch[b].status # "pending" => branch'[b].status = branch[b].status
        \* the exception reaches the orchestrator: the superstep ends in failure
        /\ (branch[b].status = "raised" /\ wf_step' # wf_step) => wf_step' = "failed"

C9_BoundedRetry == []C9_RetryInvariant /\ [][C9_RetryStep]_vars

C9_Witness ==
    /\ wf_step = "failed"
    /\ \E b \in Branches : branch[b].status = "ok" /\ branch[b].attempts = 5
    /\ \E b \in Branches : branch[b].status = "raised" /\ branch[b].attempts = 5

(* C10: the aggregator runs only when all four scoring branches have       *)
(* completed, gap analysis only after the aggregator, and whenever gap     *)
(* analysis runs all four scores and comments are in the state.            *)
C10_Barrier ==
    /\ wf_step \in {"aggregate", "gap", "end"} =>
          \A b \in Branches : branch[b].status = "ok"
    /\ gpc # "idle" =>
          /\ wf_step \in {"gap", "end", "failed"}
          /\ \A b \in Branches : branch[b].status = "ok"
          /\ (ScoreFields \cup CommentFields) \subseteq DOMAIN state
          /\ \A f \in ScoreFields : state[f] \in 0..9
          /\ gap_result.outcome = "raised" =>
                gap_result.error = "llm.invoke failed"

C10_Witness ==
    /\ wf_step = "gap"
    /\ gpc = "loop"
    /\ ScoreFields \subseteq DOMAIN state
    /\ state.grammar_score # state.task_score

(* C11: all-or-nothing.  Once a scoring branch has raised after its         *)
(* retries the evaluation can only fail: the aggregator is not scheduled,  *)
(* gap analysis is never run and invoke never returns; a result that is    *)
(* returned holds all four criterion scores and comments.                  *)
C11_AllOrNothing ==
    /\ (\E b \in Branches : branch[b].status = "raised") =>
          /\ wf_step \in {"fanout", "failed"}
          /\ gpc = "idle"
          /\ gap_attempts = 0
          /\ calls = NoCalls
          /\ (ScoreFields \cup CommentFields) \cap DOMAIN state = {}
    /\ wf_step = "end" =>
          /\ (ScoreFields \cup CommentFields) \subseteq DOMAIN evaluate_essay
          /\ \A f \in ScoreFields : evaluate_essay[f] \in 0..9
          /\ \A f \in CommentFields : evaluate_essay[f] # None

C11_Witness ==
    /\ wf_step = "failed"
    /\ Cardinality({b \in Branches : branch[b].status = "raised"}) = 1
    /\ Cardinality({b \in Branches : branch[b].status = "ok"}) = 3
    /\ gpc = "idle"

----------------------------------------------------------------------------
(* Properties of the workflow from the aggregator on, under every value of *)
(* EVAL_MONITORING (SpecMeta).                                             *)

\* the values of EVAL_MONITORING that enable meta-evaluation: true, 1, yes
\* and y in any case
EnablingValues == {"true", "True", "TRUE", "1", "yes", "YES", "y", "Y"}

(* C12: meta-evaluation is scheduled only when EVAL_MONITORING is, in any   *)
(* case, one of true, 1, yes, y, and then it is scheduled after the        *)
(* aggregator; when the variable is unset or has any other value the meta  *)
(* node is never scheduled and never attempted, and the aggregator leads   *)
(* to gap analysis alone.                                                  *)
C12_MetaOnlyWhenEnabled ==
    /\ meta.status # "unscheduled" =>
          /\ environ \in EnablingValues
          /\ wf_step \in {"gap", "end", "failed"}
    /\ (wf_step \in {"gap", "end", "failed"} /\ environ \in EnablingValues) =>
          meta.status # "unscheduled"
    /\ environ \notin EnablingValues => meta = Unscheduled
    /\ meta.attempts > 0 => environ \in EnablingValues

C12_Witness ==
    /\ environ = "YES"
    /\ wf_step = "end"
    /\ meta.status = "ok"
    /\ meta.attempts = 2

(* C13: with meta-evaluation enabled, a meta-evaluation that has failed    *)
(* after its retries does not make the evaluation fail: when gap analysis  *)
(* has returned, the evaluation returns its result.                        *)
C13_MetaDoesNotGate ==
    (meta.status = "raised" /\ gpc = "returned" /\ wf_step # "gap") =>
        wf_step = "end"

----------------------------------------------------------------------------
(* Properties of the image description step (SpecImage, and the task       *)
(* branch of SpecWF).                                                      *)

ImageCalled == h_args.fn = "image_agent" /\ h_ret # Pending

\* a description that exists: not null, not empty, not the token "null"
Usable(description) == description \notin {None, "", "null"}

(* C14: when the submission has a description that is not null, not empty  *)
(* and not "null", the step returns that description unchanged and makes   *)
(* no image-to-text call, whether there is an image reference or not and   *)
(* whatever the image check answers; run again on its own output, the      *)
(* step returns the same description again.                                *)
C14_ExistingDescriptionKept ==
    /\ (ImageCalled /\ Usable(h_args.image_description)) =>
          /\ h_ret.outcome = "returned"
          /\ h_ret.value = [image_description |-> h_args.image_description]
          /\ h_ret.llm_calls = 0
    /\ (ImageCalled /\ h_args.previous # <<>>) =>
          LET before == h_args.previous[Len(h_args.previous)] IN
          Usable(before.image_description) =>
              /\ h_ret.outcome = "returned"
              /\ h_ret.value = before.result.value
              /\ h_ret.value.image_description = before.image_description
              /\ h_ret.llm_calls = 0

C14_Witness ==
    /\ ImageCalled
    /\ Len(h_args.previous) = 1
    /\ h_args.previous[1].image_description = SuppliedDescription
    /\ h_args.previous[1].result.image_check = "image"
    /\ h_args.image_url = ImageUrl
    /\ h_ret.image_check = "image"
    /\ h_ret.outcome = "returned"
    /\ h_ret.value.image_description = SuppliedDescription

\* the task branch's attempt did not find an image: no reference, or the
\* image check answered false
NoImageFound(b) == branch[b].image_check \in {"not made", "no image"}

C15_StepKeepsDescription ==
    \A b \in Branches :
        (wf_step = "fanout" /\ branch[b].status = "ok" /\ NoImageFound(b)) =>
            /\ branch[b].image_llm_calls = 0
            /\ b = "task_evaluation" =>
                  /\ "image_description" \in DOMAIN branch[b].writes
                  /\ branch[b].writes.image_description =
                        branch[b].input.image_description
                  /\ branch[b].writes.image_description = state.image_description

C15_EvaluationKeepsDescription ==
    /\ (wf_step = "fanout" /\ wf_step' = "aggregate"
           /\ NoImageFound("task_evaluation")) =>
          state'.image_description = state.image_description
    /\ wf_step # "fanout" =>
          /\ state'.image_description = state.image_description
          /\ (wf_step' = "end" =>
                evaluate_essay'.image_description = state.image_description)
    /\ state'.image_url = state.image_url

(* C15: when the image reference is absent or fails the image check, the   *)
(* step returns the supplied description (null included) unchanged and     *)
(* makes no image-to-text call, and the image description of the           *)
(* evaluation is the supplied one: the fan-in writes it back unchanged and *)
(* no later step changes it.                                               *)
C15_NoImageKeepsDescription ==
    []C15_StepKeepsDescription /\ [][C15_EvaluationKeepsDescription]_vars

C15_Witness ==
    /\ wf_step = "fanout"
    /\ branch["task_evaluation"].status = "ok"
    /\ branch["task_evaluation"].image_check = "no image"
    /\ state.image_url = ImageUrl
    /\ state.image_description = None
    /\ branch["task_evaluation"].writes.image_description = None

\* what the image model gives when it has nothing to say: no object, an
\* empty string, or an object whose description is null or empty
EmptyResponses ==
    {Returned(NoneValue), Returned(StrValue("")),
     Returned(ImageDescriptionOutput(None)),
     Returned(ImageDescriptionOutput(""))}

(* C16: when the image-to-text function is invoked and yields an empty or  *)
(* null result, the step returns the original description of the           *)
(* submission, not the result of the call.                                 *)
C16_EmptyResultFallsBack ==
    (ImageCalled /\ h_ret.llm_calls = 1 /\ h_ret.response \in EmptyResponses) =>
        /\ h_ret.outcome = "returned"
        /\ h_ret.value.image_description = h_args.image_description

(* C17: a failure of the image check or of the image-to-text call never    *)
(* makes the step fail: the step returns, and after such a failure it      *)
(* returns the description that already existed.                           *)
C17_ImageFailuresNotFatal ==
    ImageCalled =>
        /\ h_ret.outcome = "returned"
        /\ ( \/ h_ret.image_check = "no image"
             \/ (h_ret.llm_calls = 1 /\ h_ret.response.outcome = "raised") )
              => h_ret.value.image_description = h_args.image_description

----------------------------------------------------------------------------
(* Properties of the word count penalty (SpecPenalty).                     *)

PenaltyCalled == h_args.fn = "get_word_count_penalty" /\ h_ret # Pending

\* the number of whitespace-delimited tokens of the essay: the words of
\* its texts, one less for every two texts that are joined
TokenCount ==
    LET e == h_args.essay IN
    sum([i \in 1..Len(e) |-> IF e[i].kind = "words" THEN e[i].n ELSE 0])
        - Cardinality({i \in 1..(Len(e) - 1) :
                          e[i].kind = "words" /\ e[i + 1].kind = "words"})

\* the minimum M of the essay's category
MinimumWords == IF h_args.essay_type \in {1, 3} THEN 150 ELSE 250

Instructions == {no_penalty, slight_penalty, stronger_penalty, critical_penalty}

(* C18: critical tier.  For an essay of category 1..4 whose word count is  *)
(* below M - 50 (below 100 for M = 150, below 200 for M = 250) the         *)
(* instruction is to cap the score at band 5.                              *)
C18_CriticalTier ==
    (PenaltyCalled /\ h_args.essay_type \in 1..4
        /\ TokenCount < MinimumWords - 50) =>
        /\ h_ret.outcome = "returned"
        /\ h_ret.value.penalty = critical_penalty

\* where the slight tier starts: ten words below the minimum of 150, twenty
\* words below the minimum of 250
SlightFrom == IF h_args.essay_type \in {1, 3} THEN 140 ELSE 230

(* C19 as stated: for both minimums M the 'reduce by 0.5' instruction is   *)
(* returned exactly when M - 10 <= word count < M, and a count below       *)
(* M - 10 gets a stronger instruction.                                     *)
C19_SlightTierSymmetric ==
    (PenaltyCalled /\ h_args.essay_type \in 1..4) =>
        /\ h_ret.outcome = "returned"
        /\ h_ret.value.penalty = slight_penalty
              <=> (MinimumWords - 10 <= TokenCount /\ TokenCount < MinimumWords)
        /\ TokenCount < MinimumWords - 10 =>
              h_ret.value.penalty \in {stronger_penalty, critical_penalty}

(* C19, amended: the 'reduce by 0.5' instruction is returned exactly when  *)
(* 140 <= word count < 150 for the categories 1 and 3 (M = 150) and        *)
(* exactly when 230 <= word count < 250 for the categories 2 and 4         *)
(* (M = 250); a count below 140, respectively below 230, gets a stronger   *)
(* instruction.                                                            *)
C19_SlightTier ==
    (PenaltyCalled /\ h_args.essay_type \in 1..4) =>
        /\ h_ret.outcome = "returned"
        /\ h_ret.value.penalty = slight_penalty
              <=> (SlightFrom <= TokenCount /\ TokenCount < MinimumWords)
        /\ TokenCount < SlightFrom =>
              h_ret.value.penalty \in {stronger_penalty, critical_penalty}

C19_Witness ==
    /\ PenaltyCalled
    /\ h_args.essay_type = 4
    /\ TokenCount = 230
    /\ Len(h_args.essay) = 2
    /\ h_ret.outcome = "returned"
    /\ h_ret.value.penalty = slight_penalty

(* C20: for every category in 1..4 and every essay the rule returns        *)
(* exactly one of its four instructions, never nothing, with the minimum   *)
(* and the count of whitespace-delimited tokens it was decided on; the     *)
(* instruction is 'no penalty' exactly when that count is at least the     *)
(* category's minimum M.                                                   *)
C20_PenaltyTotal ==
    (PenaltyCalled /\ h_args.essay_type \in 1..4) =>
        /\ h_ret.outcome = "returned"
        /\ h_ret.value # NoneValue
        /\ h_ret.value.penalty \in Instructions
        /\ h_ret.value.actual_word_count = TokenCount
        /\ h_ret.value.word_requirement = MinimumWords
        /\ h_ret.value.penalty = no_penalty <=> TokenCount >= MinimumWords

C20_Witness ==
    /\ PenaltyCalled
    /\ h_args.essay_type = 2
    /\ h_args.essay = <<Words(249), Words(2)>>
    /\ h_ret.outcome = "returned"
    /\ h_ret.value.actual_word_count = 250
    /\ h_ret.value.penalty = no_penalty

----------------------------------------------------------------------------
(* Properties of the submission boundary and of the endpoint.              *)

EndpointCalled == h_args.fn = "process_essay"

\* the body has a target band outside 1..9, an essay category outside
\* 1..4, or an empty essay, question or identifier
Malformed(body) ==
    \/ body.target_band.type = "int"
         /\ body.target_band.value \notin MinTarget..MaxTarget
    \/ body.essay_type.type = "int" /\ body.essay_type.value \notin EssayTypes
    \/ body.essay = StrValue("")
    \/ body.question = StrValue("")
    \/ body.track_id = StrValue("")

(* C21: a submission with a target band outside 1..9, an essay category    *)
(* outside 1..4, or an empty essay, question or identifier is rejected     *)
(* with a validation error before any workflow step runs: the body is      *)
(* validated at most once, evaluate_essay is never invoked for it, no      *)
(* workflow or gap analysis step is taken, and once it has been validated  *)
(* the request is answered with the validation error.                      *)
C21_ValidationRejects ==
    (EndpointCalled /\ Malformed(h_args.body)) =>
        /\ h_ret.validations <= 1
        /\ h_ret.invocations = 0
        /\ h_ret.data = NoneValue
        /\ WorkflowIdle
        /\ GapIdle
        /\ h_ret.validations = 1 =>
              /\ h_ret.pc = "responded"
              /\ h_ret.response = RequestValidationError

C21_Witness ==
    /\ EndpointCalled
    /\ h_args.body.target_band = IntValue(MaxTarget + 1)
    /\ h_args.body.essay_type = IntValue(2)
    /\ h_args.body.track_id = StrValue("456")
    /\ h_args.body.question = StrValue("q")
    /\ h_args.body.essay = StrValue("q")
    /\ h_ret.pc = "responded"
    /\ h_ret.validations = 1
    /\ h_ret.response = RequestValidationError

----------------------------------------------------------------------------
(* Properties of the failure handling.                                     *)

\* what the Descriptor Store lookups raise
LookupErrors ==
    {"Invalid essay_type, must be 1-4", "Unknown agent name",
     "task_number must be Task 1 or Task 2", "Unknown criterion"}

\* the current attempt of gap analysis ended in a lookup that raised
LookupRaised ==
    /\ wf_step \in {"gap", "failed"}
    /\ gpc = "raised"
    /\ gap_result.outcome = "raised"
    /\ gap_result.error \in LookupErrors

LookupCalled == h_args.fn \in Lookups /\ h_ret # Pending

\* the lookups that take an agent name
ByAgent ==
    {"get_all_band_descriptors_by_criteria",
     "get_target_band_descriptors_by_criteria", "get_assessment_by_criteria"}

\* the spellings of the four agent names, with the criterion of each; the
\* task agent's is by task
KnownAgents ==
    [a \in {"grammar_agent", "GRAMMAR_AGENT"} |->
        [t \in {1, 2} |-> "Grammatical Range & Accuracy"]]
    @@ [a \in {"lexical_agent", "LEXICAL_agent"} |->
        [t \in {1, 2} |-> "Lexical Resource"]]
    @@ [a \in {"coherence_agent", "Coherence_Agent"} |->
        [t \in {1, 2} |-> "Coherence & Cohesion"]]
    @@ [a \in {"task_agent", "task_AGEnt"} |->
        [t \in {1, 2} |-> IF t = 1 THEN "Task Achievement"
                                   ELSE "Task Response"]]

(* C23: every Descriptor Store lookup raises instead of returning text     *)
(* when the essay category is not one of 1..4 or, for the lookups by       *)
(* agent, the agent name is not one of the four known ones in any          *)
(* capitalisation, and returns otherwise; the criterion it looks up is     *)
(* the agent's, which for the task agent is Task Achievement for the       *)
(* categories 1 and 3 and Task Response for 2 and 4.                       *)
C23_LookupsRaiseOnUnknown ==
    LookupCalled =>
        LET unknown ==
                \/ h_args.essay_type \notin 1..4
                \/ h_args.fn \in ByAgent /\ h_args.agent \notin DOMAIN KnownAgents
            task == IF h_args.essay_type \in {1, 3} THEN 1 ELSE 2
        IN  /\ h_ret.outcome = "raised" <=> unknown
            /\ (~unknown /\ h_args.fn \in ByAgent
                  /\ h_ret.value # <<"Descriptor not found for given parameters.">>)
                 => h_ret.value[4] = KnownAgents[h_args.agent][task]

C23_Witness ==
    /\ LookupCalled
    /\ h_args.fn = "get_all_band_descriptors_by_criteria"
    /\ h_args.essay_type = 1
    /\ h_args.agent = "task"
    /\ h_ret = Raised("Unknown agent name")

(* C24: whenever evaluate_essay raises, whatever the exception, the        *)
(* endpoint answers status 500 with the fixed detail 'Unable to Process    *)
(* Feedback', which carries nothing of the exception; a result body is     *)
(* answered only when evaluate_essay returned.                             *)
C24_FailureIsGeneric ==
    (EndpointCalled /\ h_ret.pc = "responded") =>
        /\ h_ret.raised # None =>
              /\ h_ret.response.type = "HTTPException"
              /\ h_ret.response.status_code = 500
              /\ h_ret.response.detail = "Unable to Process Feedback"
        /\ h_ret.response.type = "JSONResponse" =>
              /\ h_ret.raised = None
              /\ h_ret.invocations = 1
              /\ h_ret.response.content.data \in FrontendResponses(h_ret.data)

C24_Witness ==
    /\ EndpointCalled
    /\ h_ret.pc = "responded"
    /\ h_ret.raised = "KeyError"
    /\ h_ret.response = HTTPException(500, "Unable to Process Feedback")

----------------------------------------------------------------------------
(* Properties of the evaluation result.                                    *)

\* the fields of a submission that are no field of a result
SubmissionOnlyFields ==
    {"question", "essay", "essay_type", "target_band", "image_url"}

\* the result of an evaluation that has ended has exactly the eleven
\* fields
ElevenFields ==
    wf_step = "end" =>
        /\ DOMAIN evaluate_essay =
              ScoreFields \cup CommentFields
                  \cup {"image_description", "overall_feedback", "track_id"}
        /\ Cardinality(DOMAIN evaluate_essay) = 11
        /\ DOMAIN evaluate_essay \cap SubmissionOnlyFields = {}

\* no step of the workflow changes the track_id the submission came with
TrackIdKept == "track_id" \in DOMAIN state' /\ state'.track_id = state.track_id

(* C25: every successful evaluation returns a result whose track_id is     *)
(* the one of the submission (no step changes it), and whose fields are    *)
(* exactly the four scores, the four comments, the image description, the  *)
(* overall feedback and the track_id (11 fields), none of them another     *)
(* field of the submission.                                                *)
C25_ResultFields == []ElevenFields /\ [][TrackIdKept]_vars

C25_Witness ==
    /\ wf_step = "end"
    /\ evaluate_essay.track_id = "456@same_track_id@456"
    /\ evaluate_essay.image_description = GeneratedDescription
    /\ calls.llm = 1
    /\ Cardinality(DOMAIN evaluate_essay) = 11

----------------------------------------------------------------------------
(* Properties of the scoring branches taken together.                      *)

\* the fields the spec gives each scoring branch
FieldsOf ==
    [b \in Branches |->
        CASE b = "grammar_evaluation" -> {"grammar_score", "grammar_comment"}
          [] b = "lexical_evaluation" -> {"lexical_score", "lexical_comment"}
          [] b = "coherence_evaluation" ->
                 {"coherence_score", "coherence_comment"}
          [] b = "task_evaluation" ->
                 {"task_score", "task_comment", "image_description"}]

\* the fields of a Submission (InputState)
SubmissionFields ==
    {"track_id", "question", "essay", "essay_type", "target_band",
     "image_url", "image_description"}

\* each branch writes its own fields only, no two branches a common one
DisjointWrites ==
    /\ \A b \in Branches : DOMAIN branch[b].writes \subseteq FieldsOf[b]
    /\ \A b, c \in Branches :
          b # c => DOMAIN branch[b].writes \cap DOMAIN branch[c].writes = {}

\* the fan-out superstep leaves the state alone until its end, where the
\* writes of the branches are all that changes; the aggregator changes
\* nothing
StateSteps ==
    /\ (wf_step = "fanout" /\ wf_step' = "fanout") => state' = state
    /\ (wf_step = "fanout" /\ wf_step' = "aggregate") =>
          /\ DOMAIN state' =
                DOMAIN state \cup UNION {DOMAIN branch[b].writes : b \in Branches}
          /\ \A b \in Branches : \A f \in DOMAIN branch[b].writes :
                state'[f] = branch[b].writes[f]
          /\ \A f \in DOMAIN state :
                f \notin UNION {FieldsOf[b] : b \in Branches} =>
                    state'[f] = state[f]
    /\ wf_step = "aggregate" => state' = state

(* C26 as stated: no branch writes a field of the Submission, the image    *)
(* description among them.                                                 *)
C26_NoSubmissionFieldWritten ==
    \A b \in Branches : DOMAIN branch[b].writes \cap SubmissionFields = {}

(* C26: the four scoring branches write pairwise disjoint fields: grammar  *)
(* only grammar_score / grammar_comment, lexical only lexical_score /      *)
(* lexical_comment, coherence only coherence_score / coherence_comment,    *)
(* task only task_score / task_comment / image_description; no field is    *)
(* written by two branches; the image description, which the task branch   *)
(* writes, is the only field of the Submission a branch writes; what the   *)
(* fan-in applies is these writes and nothing else, and the aggregate      *)
(* step changes no field.                                                  *)
C26_DisjointWrites ==
    /\ [](DisjointWrites
           /\ \A b \in Branches :
                 DOMAIN branch[b].writes \cap SubmissionFields
                     \subseteq {"image_description"})
    /\ [][StateSteps]_vars

C26_Witness ==
    /\ wf_step = "fanout"
    /\ \A b \in Branches : branch[b].status = "ok"
    /\ DOMAIN branch["task_evaluation"].writes = FieldsOf["task_evaluation"]
    /\ branch["task_evaluation"].writes.image_description = GeneratedDescription
    /\ DOMAIN branch["grammar_evaluation"].writes = FieldsOf["grammar_evaluation"]

----------------------------------------------------------------------------
(* Properties of the evaluation requests.                                  *)

EvaluationCalled ==
    /\ h_args.fn \in {"grammar_evaluation", "lexical_evaluation",
                      "coherence_evaluation"}
    /\ h_ret # Pending

(* C27: each of the grammar, lexical and coherence agents builds its       *)
(* evaluation request for every valid submission, and the request's notes  *)
(* hold the instruction that responses of 20 words or fewer are rated at   *)
(* band 1.                                                                 *)
C27_RequestBuilt ==
    EvaluationCalled =>
        /\ h_ret.outcome = "returned"
        /\ \E i \in DOMAIN h_ret.value.notes :
              h_ret.value.notes[i] = "Responses of 20 words or fewer are rated at Band 1."

(* C28: the coherence agent's request holds the 'essay contains NO line    *)
(* breaks' instruction exactly when the essay has no line break; an essay  *)
(* with at least one line break gets the general paragraphing note.        *)
C28_NoteByLineBreaks ==
    (EvaluationCalled /\ h_args.fn = "coherence_evaluation") =>
        LET has_break == \E i \in DOMAIN h_args.input_state.essay :
                             h_args.input_state.essay[i] = "\n"
        IN  /\ h_ret.outcome = "returned"
            /\ h_ret.value.notes[1] =
                  IF has_break THEN general_paragraphing_note
                               ELSE no_line_breaks_note

----------------------------------------------------------------------------
(* Properties of gap analysis over every score.                            *)

(* C29: for every four scores in 0..9 and every target in 1..9, if the     *)
(* overall band is strictly below the target then at least one criterion   *)
(* score is strictly below the target, so weak_bands is not empty when     *)
(* the loop is entered, and the improvement-plan request has been built,   *)
(* with every weak criterion in it, when the generation call is made; the  *)
(* generation call is never reached with an empty weak_bands (which would  *)
(* leave the request unbound).                                             *)
C29_WeakBandsBeforeGeneration ==
    /\ ~TargetMetByScores => WeakByScores # {}
    /\ gpc = "loop" =>
          /\ ~TargetMetByScores
          /\ DOMAIN weak_bands = WeakByScores
          /\ DOMAIN weak_bands # {}
    /\ (gpc = "loop" /\ todo = <<>>) =>
          /\ prompt.bound
          /\ DOMAIN prompt.target_band_descriptor_data = DOMAIN weak_bands
    /\ calls.llm > 0 =>
          /\ calls.llm = 1
          /\ prompt.bound
          /\ DOMAIN prompt.weak_bands # {}
          /\ calls.descriptor = Cardinality(DOMAIN weak_bands)
    /\ gap_result # Raised("UnboundLocalError")

C29_Witness ==
    /\ GapReturned
    /\ state.target_band = 1
    /\ StateSum = 1
    /\ Cardinality(WeakByScores) = 3
    /\ calls = [descriptor |-> 3, criteria |-> 3, llm |-> 1]
    /\ DOMAIN prompt.weak_bands = WeakByScores

----------------------------------------------------------------------------
(* Properties of the retries taken together.                               *)

\* no node is invoked more than 5 times, and a result holds every score
BoundedInvocations ==
    /\ \A b \in Branches : branch[b].attempts <= 5
    /\ gap_attempts <= 5
    /\ wf_step = "end" => AllScoresPresent

\* an attempt of a scoring branch touches that branch alone; while gap
\* analysis runs or is retried no scoring branch is invoked and no score
\* or comment changes
PerBranchStep ==
    /\ \A b \in Branches :
          (wf_step' = "fanout" /\ branch'[b] # branch[b]) =>
              /\ branch'[b].attempts = branch[b].attempts + 1
              /\ \A c \in Branches \ {b} : branch'[c] = branch[c]
              /\ state' = state
    /\ wf_step = "gap" =>
          /\ branch' = branch
          /\ \A f \in ScoreFields \cup CommentFields : state'[f] = state[f]
    /\ gap_attempts' # gap_attempts =>
          /\ gap_attempts' = gap_attempts + 1
          /\ branch' = branch
          /\ state' = state

(* C30: retries are per branch: a failed attempt of a scoring branch is     *)
(* followed by another attempt of that branch only, which leaves the       *)
(* siblings and their results as they are; a retry of gap analysis runs    *)
(* no scoring agent and changes no score; each node is invoked at most 5   *)
(* times, and every evaluation ends in a complete result or in a failure.  *)
C30_RetriesPerBranch ==
    /\ []BoundedInvocations
    /\ [][PerBranchStep]_vars
    /\ <>(wf_step \in {"end", "failed"})

C30_Witness ==
    /\ wf_step = "fanout"
    /\ branch["grammar_evaluation"].status = "ok"
    /\ branch["grammar_evaluation"].attempts = 1
    /\ branch["lexical_evaluation"].status = "pending"
    /\ branch["lexical_evaluation"].attempts = 4
    /\ branch["task_evaluation"].attempts = 0

====
